---------------------------- MODULE Spec2Model ----------------------------
(***************************************************************************)
(* Real-Time Vocabulary Quiz: the Redis-backed leaderboard service, the    *)
(* Socket.IO gateway in front of it and the React client's socket          *)
(* handlers.                                                               *)
(*                                                                         *)
(* Every Redis command is one atomic step of the store.  A handler that    *)
(* awaits a command is suspended between commands, so the commands of      *)
(* concurrent handlers (and of several service processes sharing the same  *)
(* Redis) interleave freely.  A `pipeline()` without MULTI is a batch of   *)
(* independent commands, not a transaction.                                *)
(***************************************************************************)
EXTENDS Integers, Sequences, FiniteSets, TLC

(***************************************************************************)
(* Bounds of the model.                                                    *)
(***************************************************************************)
\* Participant ids.
NumUsers == 2
\* Requests sent to the leaderboard service directly in one behaviour.
MaxReqs == 3
\* Handler invocations suspended at the same time.
MaxInFlight == 2
\* Browser clients and gateway processes.
NumClients == 2
NumGateways == 2
\* Events and requests the gateway processes receive in one behaviour.
MaxEvents == 2

(***************************************************************************)
(* Program constants.                                                      *)
(***************************************************************************)
\* pipeline.expire(key, 60 * 60 * 4)
TTL == 14400
\* redis.zrevrange(key, 0, 19, 'WITHSCORES')
TopStop == 19

\* User ids are strings; the integer stands for the string's place in
\* lexicographic order (Redis orders equal-score members by it).
Users == 1..NumUsers
NoUser == 0
Names == {"Ann", "Bea"}
\* The username the clients of the gateway model type into the join form.
ClientNames == {"Ann"}
Sessions == {"q1"}
\* Deltas the scoring engine can produce that the model draws from:
\* a wrong answer (-10) and an easy question's bonus (50).
Deltas == {-10, 50}
Slots == 1..MaxInFlight
Clients == 1..NumClients
Gateways == 1..NumGateways
NoGateway == 0
NoClient == 0

NoExpiry == -1

VARIABLES
    zset,       \* zset[q]: sorted set leaderboard:<q>, a set of [member, score]
    names,      \* names[q]: hash leaderboard:<q>:usernames, member -> username
    expireAt,   \* expireAt[q]: expiry instants of the two keys of q
    now,        \* the store's clock, in seconds
    req,        \* req[i]: the request handled in slot i
    issued,     \* number of requests issued so far
    expected,   \* history: expected[q][u] = sum of the deltas posted for (q, u)
    joinSeq,    \* history: joinSeq[q] = members in order of entry creation
    sock,       \* sock[c]: gateway process client c's socket is connected to (0: none)
    rooms,      \* rooms[g][q]: sockets in room quiz:<q> of gateway process g
    inbox,      \* inbox[c]: messages sent to c's socket, not yet handled by c
    disp,       \* disp[c]: the React state of client c
    lastEmit,   \* history: the latest leaderboard_update broadcast
    touch,      \* history: touch[q][u] = joins and score updates issued for (q, u)
    kv,         \* kv[k]: the Redis key k, for session ids that contain ':'
    scLog       \* the scoring engine's exchanges with its callers

gwVars == <<sock, rooms, inbox, disp, lastEmit>>

vars == <<zset, names, expireAt, now, req, issued, expected, joinSeq,
          sock, rooms, inbox, disp, lastEmit, touch, kv, scLog>>

(***************************************************************************)
(* Redis commands, as functions of the value stored under the key.         *)
(***************************************************************************)
Members(z) == {e.member : e \in z}

ScoreIn(z, m) == (CHOOSE e \in z : e.member = m).score

\* ZADD without NX: an existing member's score is overwritten.
ZAddOverwrite(z, score, m) ==
    {e \in z : e.member # m} \cup {[member |-> m, score |-> score]}

\* ZADD key NX 0 member: add only when the member is absent.
ZAddNX(z, score, m) ==
    IF m \in Members(z) THEN z ELSE z \cup {[member |-> m, score |-> score]}

\* A write that stores the delta as the score.
ZIncrByReplace(z, delta, m) ==
    {e \in z : e.member # m} \cup {[member |-> m, score |-> delta]}

\* A read-modify-write that floors the score at zero.
ZIncrByFloored(z, delta, m) ==
    LET old == IF m \in {e.member : e \in z}
               THEN (CHOOSE e \in z : e.member = m).score ELSE 0
        new == IF old + delta < 0 THEN 0 ELSE old + delta
    IN  {e \in z : e.member # m} \cup {[member |-> m, score |-> new]}

\* An increment that keeps the sum of a session's scores at or under 150:
\* what a member gains depends on what the others already have.
ZIncrByCapped(z, delta, m) ==
    LET old == IF m \in {e.member : e \in z}
               THEN (CHOOSE e \in z : e.member = m).score ELSE 0
        RECURSIVE Sum(_)
        Sum(s) == IF s = {} THEN 0
                  ELSE LET e == CHOOSE x \in s : TRUE IN e.score + Sum(s \ {e})
        room == 150 - Sum({e \in z : e.member # m})
        new == IF old + delta > room THEN room ELSE old + delta
    IN  {e \in z : e.member # m} \cup {[member |-> m, score |-> new]}

\* ZINCRBY key delta member: add delta to the member's score (0 if absent).
ZIncrBy(z, delta, m) ==
    IF m \in Members(z)
    THEN {e \in z : e.member # m} \cup {[member |-> m, score |-> ScoreIn(z, m) + delta]}
    ELSE z \cup {[member |-> m, score |-> delta]}

\* ZSCORE key member: null (<<>>) or the score.
ZScore(z, m) == IF m \in Members(z) THEN <<ScoreIn(z, m)>> ELSE <<>>

\* Highest score first, but equal scores in ascending member order.
BeforeTiesAscending(e, f) ==
    \/ e.score > f.score
    \/ e.score = f.score /\ e.member < f.member

\* Sorted-set order, highest first: by score, equal scores by member
\* (descending lexicographic order of the member string).
Before(e, f) ==
    \/ e.score > f.score
    \/ e.score = f.score /\ e.member > f.member

First(z) == CHOOSE e \in z : \A f \in z \ {e} : Before(e, f)

RECURSIVE RevOrder(_)
RevOrder(z) == IF z = {} THEN <<>> ELSE <<First(z)>> \o RevOrder(z \ {First(z)})

RECURSIVE WithScores(_)
WithScores(s) ==
    IF s = <<>> THEN <<>> ELSE <<Head(s).member, Head(s).score>> \o WithScores(Tail(s))

Min(a, b) == IF a < b THEN a ELSE b

\* ZRANGE instead of ZREVRANGE: the same index range of the ascending order.
ZRangeAscending(z, start, stop) ==
    LET all == RevOrder(z)
        asc == [k \in 1..Len(all) |-> all[Len(all) + 1 - k]]
        last == Min(stop + 1, Len(all))
    IN  WithScores(SubSeq(asc, start + 1, last))

\* ZREVRANGE key start stop WITHSCORES (0 <= start): the flat reply
\* member, score, member, score, ...
ZRevRange(z, start, stop) ==
    LET all == RevOrder(z)
        last == Min(stop + 1, Len(all))
    IN  WithScores(SubSeq(all, start + 1, last))

\* HSET key field value: sets (overwrites) the field.
HSet(h, f, v) == [x \in DOMAIN h \cup {f} |-> IF x = f THEN v ELSE h[x]]

EmptyHash == [x \in {} |-> "Ann"]

\* EXPIRE key seconds: no effect on a key that does not exist.
Expire(exists, old, seconds) == IF exists THEN now + seconds ELSE old

(***************************************************************************)
(* buildLeaderboardResponse, after the three replies have arrived.         *)
(***************************************************************************)
\* A userId that is the name of a member of Object.prototype, such as
\* 'constructor' or 'toString'.
ProtoUser == -1

ObjectPrototypeKeys == {ProtoUser}

AllUsers == Users \cup ObjectPrototypeKeys

\* usernameMap[id] ?? 'Anonymous' on the plain object hgetall resolves to:
\* an own field, else an inherited member (a function, which res.json
\* leaves out: no username, ""), else undefined and so the fallback.
Lookup(usernameMap, id) ==
    IF id \in DOMAIN usernameMap THEN usernameMap[id]
    ELSE IF id \in ObjectPrototypeKeys THEN ""
    ELSE "Anonymous"

RECURSIVE Entries(_, _, _)
Entries(top, usernameMap, i) ==
    IF i >= Len(top) THEN <<>>
    ELSE <<[userId |-> top[i + 1],
            username |-> Lookup(usernameMap, top[i + 1]),
            score |-> top[i + 2],
            rank |-> (i \div 2) + 1]>> \o Entries(top, usernameMap, i + 2)

BuildResponse(quizId, top, userScoreValue, usernameMap) ==
    [status |-> 200,
     quizId |-> quizId,
     leaderboard |-> Entries(top, usernameMap, 0),
     userScore |-> IF userScoreValue = <<>> THEN 0 ELSE userScoreValue[1]]

NoResp == [status |-> 0, quizId |-> "", leaderboard |-> <<>>, userScore |-> 0]

(***************************************************************************)
(* Requests.                                                               *)
(***************************************************************************)
IdleReq ==
    [pc |-> "idle", op |-> "", quizId |-> "", userId |-> NoUser, username |-> "",
     delta |-> 0, top |-> <<>>, userScoreValue |-> <<>>, resp |-> NoResp,
     seenZ |-> {}, incr |-> <<>>,
     origin |-> "", client |-> NoClient, gw |-> NoGateway,
     questionId |-> "", answer |-> <<>>, correct |-> FALSE,
     fails |-> 0, bad |-> FALSE, qid |-> <<>>]

NoEmit ==
    [op |-> "", quizId |-> "", data |-> NoResp, receivers |-> {}, viewers |-> {}]

LowestIdle(i) ==
    /\ req[i].pc = "idle"
    /\ \A j \in Slots : j < i => req[j].pc # "idle"

\* A slot for a request sent to the leaderboard service directly.
FreeSlot(i) == LowestIdle(i) /\ issued < MaxReqs

\* A slot for an event or request a gateway process receives.
FreeGwSlot(i) == LowestIdle(i) /\ issued < MaxEvents

(***************************************************************************)
(* Redis keys.  A quizId is any non-empty route parameter; it is modelled  *)
(* as its ':'-separated segments, and a key as the segments of the string  *)
(* the template literal builds.                                            *)
(***************************************************************************)
QuizIds == {<<"q1">>, <<"q2">>, <<"q1", "usernames">>}

\* `leaderboard:${quizId}`
leaderboardKey(quizId) == <<"leaderboard">> \o quizId

\* `leaderboard:${quizId}:usernames`
usernamesKey(quizId) == <<"leaderboard">> \o quizId \o <<"usernames">>

Keys == {leaderboardKey(q) : q \in QuizIds} \cup {usernamesKey(q) : q \in QuizIds}

\* A key that does not exist: no members, no fields, no expiry.
NoKey == [z |-> {}, h |-> EmptyHash, exp |-> NoExpiry]

KvInit == [k \in Keys |-> NoKey]

ScInit == <<>>

Init ==
    /\ zset = [q \in Sessions |-> {}]
    /\ names = [q \in Sessions |-> EmptyHash]
    /\ expireAt = [q \in Sessions |-> [lb |-> NoExpiry, names |-> NoExpiry]]
    /\ now = 0
    /\ req = [i \in Slots |-> IdleReq]
    /\ issued = 0
    /\ expected = [q \in Sessions |-> [u \in AllUsers |-> 0]]
    /\ joinSeq = [q \in Sessions |-> <<>>]
    /\ sock = [c \in Clients |-> NoGateway]
    /\ rooms = [g \in Gateways |-> [q \in Sessions |-> {}]]
    /\ inbox = [c \in Clients |-> <<>>]
    /\ disp = [c \in Clients |->
                 [leaderboard |-> <<>>, userScore |-> 0, isJoined |-> FALSE]]
    /\ lastEmit = NoEmit
    /\ touch = [q \in Sessions |-> [u \in AllUsers |-> 0]]
    /\ kv = KvInit
    /\ scLog = ScInit

\* POST /sessions/:quizId/join with a valid body, up to the first await.
PostJoin(i, q, u, n) ==
    /\ FreeSlot(i)
    /\ req' = [req EXCEPT ![i] = [IdleReq EXCEPT !.pc = "zadd", !.op = "join",
                                   !.origin = "http", !.quizId = q,
                                   !.userId = u, !.username = n]]
    /\ issued' = issued + 1
    /\ touch' = [touch EXCEPT ![q][u] = @ + 1]
    /\ UNCHANGED <<zset, names, expireAt, now, expected, joinSeq, gwVars, kv, scLog>>

\* A score route that increments without calling ensureUser first.
PostScoreNoEnsure(i, q, u, n, d) ==
    /\ FreeSlot(i)
    /\ req' = [req EXCEPT ![i] = [IdleReq EXCEPT !.pc = "zincrby", !.op = "score",
                                   !.origin = "http", !.quizId = q,
                                   !.userId = u, !.username = n, !.delta = d]]
    /\ issued' = issued + 1
    /\ touch' = [touch EXCEPT ![q][u] = @ + 1]
    /\ expected' = [expected EXCEPT ![q][u] = @ + d]
    /\ UNCHANGED <<zset, names, expireAt, now, joinSeq, gwVars, kv, scLog>>

\* POST /sessions/:quizId/score with a valid body, up to the first await.
PostScore(i, q, u, n, d) ==
    /\ FreeSlot(i)
    /\ req' = [req EXCEPT ![i] = [IdleReq EXCEPT !.pc = "zadd", !.op = "score",
                                   !.origin = "http", !.quizId = q,
                                   !.userId = u, !.username = n, !.delta = d]]
    /\ issued' = issued + 1
    /\ touch' = [touch EXCEPT ![q][u] = @ + 1]
    /\ expected' = [expected EXCEPT ![q][u] = @ + d]
    /\ UNCHANGED <<zset, names, expireAt, now, joinSeq, gwVars, kv, scLog>>

\* A GET handler that registers the requester before reading.
GetSessionEnsuring(i, q, u) ==
    /\ FreeSlot(i)
    /\ req' = [req EXCEPT ![i] = [IdleReq EXCEPT !.pc = "zadd", !.op = "get",
                                   !.origin = "http", !.quizId = q, !.userId = u]]
    /\ issued' = issued + 1
    /\ UNCHANGED <<zset, names, expireAt, now, expected, joinSeq, gwVars, touch, kv, scLog>>

\* GET /sessions/:quizId?userId=u (u = NoUser: no userId in the query).
GetSession(i, q, u) ==
    /\ FreeSlot(i)
    /\ req' = [req EXCEPT ![i] = [IdleReq EXCEPT !.pc = "zrevrange", !.op = "get",
                                   !.origin = "http", !.quizId = q, !.userId = u]]
    /\ issued' = issued + 1
    /\ UNCHANGED <<zset, names, expireAt, now, expected, joinSeq, gwVars, touch, kv, scLog>>

(***************************************************************************)
(* ensureUser: the four commands of the pipeline.                          *)
(***************************************************************************)
PipeZAdd(i) ==
    LET r == req[i] IN
    /\ r.pc = "zadd"
    /\ zset' = [zset EXCEPT ![r.quizId] = ZAddNX(@, 0, r.userId)]
    /\ joinSeq' = IF r.userId \in Members(zset[r.quizId]) THEN joinSeq
                  ELSE [joinSeq EXCEPT ![r.quizId] = Append(@, r.userId)]
    /\ req' = [req EXCEPT ![i].pc = "hset"]
    /\ UNCHANGED <<names, expireAt, now, issued, expected, gwVars, touch, kv, scLog>>

PipeHSet(i) ==
    LET r == req[i] IN
    /\ r.pc = "hset"
    /\ names' = [names EXCEPT ![r.quizId] = HSet(@, r.userId, r.username)]
    /\ req' = [req EXCEPT ![i].pc = "expire_lb"]
    /\ UNCHANGED <<zset, expireAt, now, issued, expected, joinSeq, gwVars, touch, kv, scLog>>

PipeExpireLb(i) ==
    LET r == req[i] IN
    /\ r.pc = "expire_lb"
    /\ expireAt' = [expireAt EXCEPT ![r.quizId].lb =
                        Expire(zset[r.quizId] # {}, @, TTL)]
    /\ req' = [req EXCEPT ![i].pc = "expire_names"]
    /\ UNCHANGED <<zset, names, now, issued, expected, joinSeq, gwVars, touch, kv, scLog>>

PipeExpireNames(i) ==
    LET r == req[i] IN
    /\ r.pc = "expire_names"
    /\ expireAt' = [expireAt EXCEPT ![r.quizId].names =
                        Expire(DOMAIN names[r.quizId] # {}, @, TTL)]
    /\ req' = [req EXCEPT ![i].pc = IF r.op = "score" THEN "zincrby" ELSE "zrevrange"]
    /\ UNCHANGED <<zset, names, now, issued, expected, joinSeq, gwVars, touch, kv, scLog>>

\* await redis.zincrby(key, body.delta, body.userId): the reply (the new
\* score) is not bound to anything by the handler; incr records it.
ScoreZIncrBy(i) ==
    LET r == req[i]
        z == ZIncrBy(zset[r.quizId], r.delta, r.userId)
    IN
    /\ r.pc = "zincrby"
    /\ zset' = [zset EXCEPT ![r.quizId] = z]
    /\ joinSeq' = IF r.userId \in Members(zset[r.quizId]) THEN joinSeq
                  ELSE [joinSeq EXCEPT ![r.quizId] = Append(@, r.userId)]
    /\ req' = [req EXCEPT ![i].pc = "zrevrange", ![i].incr = <<ScoreIn(z, r.userId)>>]
    /\ UNCHANGED <<names, expireAt, now, issued, expected, gwVars, touch, kv, scLog>>

(***************************************************************************)
(* buildLeaderboardResponse: the three reads of Promise.all, in the order  *)
(* they are issued on the connection.                                      *)
(***************************************************************************)
ReadZRevRange(i) ==
    LET r == req[i] IN
    /\ r.pc = "zrevrange"
    /\ req' = [req EXCEPT ![i].pc = IF r.userId = NoUser THEN "hgetall" ELSE "zscore",
                          ![i].top = ZRevRange(zset[r.quizId], 0, TopStop),
                          ![i].seenZ = zset[r.quizId]]
    /\ UNCHANGED <<zset, names, expireAt, now, issued, expected, joinSeq, gwVars, touch, kv, scLog>>

ReadZScore(i) ==
    LET r == req[i] IN
    /\ r.pc = "zscore"
    /\ req' = [req EXCEPT ![i].pc = "hgetall",
                          ![i].userScoreValue = ZScore(zset[r.quizId], r.userId)]
    /\ UNCHANGED <<zset, names, expireAt, now, issued, expected, joinSeq, gwVars, touch, kv, scLog>>

\* The last reply resolves Promise.all; the handler builds the response and
\* sends it (res.json) without further suspension.
ReadHGetAll(i) ==
    LET r == req[i] IN
    /\ r.pc = "hgetall"
    /\ req' = [req EXCEPT ![i].pc = "responded",
                          ![i].resp = BuildResponse(r.quizId, r.top, r.userScoreValue,
                                                    names[r.quizId])]
    /\ UNCHANGED <<zset, names, expireAt, now, issued, expected, joinSeq, gwVars, touch, kv, scLog>>

\* The HTTP caller has the response; the slot is free again.
HttpDone(i) ==
    /\ req[i].pc = "responded"
    /\ req[i].origin = "http"
    /\ req' = [req EXCEPT ![i] = IdleReq]
    /\ UNCHANGED <<zset, names, expireAt, now, issued, expected, joinSeq, gwVars, touch, kv, scLog>>

(***************************************************************************)
(* Scoring engine: POST /score.  Strings are sequences of characters.      *)
(***************************************************************************)
UpperCase == <<"A", "B", "C", "D", "E", "F", "G", "H", "I", "J", "K", "L", "M",
               "N", "O", "P", "Q", "R", "S", "T", "U", "V", "W", "X", "Y", "Z">>
LowerCase == <<"a", "b", "c", "d", "e", "f", "g", "h", "i", "j", "k", "l", "m",
               "n", "o", "p", "q", "r", "s", "t", "u", "v", "w", "x", "y", "z">>
WhiteSpace == {" ", "\t", "\n", "\r"}

ToLowerChar(c) ==
    IF \E k \in DOMAIN UpperCase : UpperCase[k] = c
    THEN LowerCase[CHOOSE k \in DOMAIN UpperCase : UpperCase[k] = c]
    ELSE c

toLowerCase(s) == [k \in DOMAIN s |-> ToLowerChar(s[k])]

RECURSIVE TrimStart(_)
TrimStart(s) ==
    IF s # <<>> /\ Head(s) \in WhiteSpace THEN TrimStart(Tail(s)) ELSE s

RECURSIVE TrimEnd(_)
TrimEnd(s) ==
    IF s # <<>> /\ s[Len(s)] \in WhiteSpace THEN TrimEnd(SubSeq(s, 1, Len(s) - 1)) ELSE s

trim(s) == TrimEnd(TrimStart(s))

\* compareAnswers without the trim of the submitted answer.
compareAnswersUntrimmed(expected_, actual) ==
    toLowerCase(trim(expected_)) = toLowerCase(actual)

compareAnswers(expected_, actual) ==
    toLowerCase(trim(expected_)) = toLowerCase(trim(actual))

QuestionIds == {"vocab-1", "vocab-2", "vocab-3", "vocab-4"}

QUESTIONS ==
    [id \in QuestionIds |->
        CASE id = "vocab-1" ->
               [answer |-> <<"s", "e", "r", "e", "n", "d", "i", "p", "i", "t", "y">>,
                difficulty |-> "medium"]
          [] id = "vocab-2" ->
               [answer |-> <<"e", "p", "h", "e", "m", "e", "r", "a", "l">>,
                difficulty |-> "medium"]
          [] id = "vocab-3" ->
               [answer |-> <<"g", "r", "e", "g", "a", "r", "i", "o", "u", "s">>,
                difficulty |-> "easy"]
          [] id = "vocab-4" ->
               [answer |-> <<"a", "b", "e", "r", "r", "a", "t", "i", "o", "n">>,
                difficulty |-> "hard"]]

\* One bonus for every difficulty.
DIFFICULTY_BONUS_Flat ==
    [d \in {"easy", "medium", "hard"} |-> 50]

DIFFICULTY_BONUS ==
    [d \in {"easy", "medium", "hard"} |->
        CASE d = "easy" -> 50 [] d = "medium" -> 75 [] d = "hard" -> 120]

\* QUESTIONS is an object literal: QUESTIONS[id] for an id that is not one of
\* its own keys is looked up on Object.prototype, where 'constructor' (like
\* 'toString', 'valueOf', ...) names a function: a truthy value without an
\* 'answer' property.
InheritedQuestionIds == {"constructor"}

\* The body of the POST /score handler for a valid payload.  For an
\* inherited id, question.answer is undefined and compareAnswers throws a
\* TypeError on undefined.trim(); Express answers an uncaught exception of a
\* synchronous handler with 500.
ScoreAnswer(questionId, answer) ==
    LET known == questionId \in DOMAIN QUESTIONS
        correct == IF known THEN compareAnswers(QUESTIONS[questionId].answer, answer)
                   ELSE FALSE
    IN  IF questionId \in InheritedQuestionIds
        THEN [status |-> 500, correct |-> FALSE, delta |-> 0]
        ELSE [status |-> 200, correct |-> correct,
              delta |-> IF correct
                        THEN DIFFICULTY_BONUS[QUESTIONS[questionId].difficulty]
                        ELSE -10]

\* The submissions the clients of the model send: a right answer to an
\* easy question (with padding and a capital) and a wrong answer.
Submissions ==
    {[questionId |-> "vocab-3",
      answer |-> <<" ", "G", "r", "e", "g", "a", "r", "i", "o", "u", "s">>],
     [questionId |-> "vocab-1", answer |-> <<"l", "u", "c", "k">>]}

(***************************************************************************)
(* Gateway (realtime-server) and client (frontend).                        *)
(***************************************************************************)
Msg(type, data, correct, delta, newScore) ==
    [type |-> type, data |-> data, correct |-> correct, delta |-> delta,
     newScore |-> newScore, error |-> ""]

UpdateMsg(data) == Msg("leaderboard_update", data, FALSE, 0, 0)

\* io.to(room).emit(event, data): written to every socket of the room that
\* is connected to this gateway process.
EmitTo(box, receivers, data) ==
    [c \in Clients |->
        IF c \in receivers THEN Append(box[c], UpdateMsg(data)) ELSE box[c]]

\* sendAck(ack, payload)
SendAck(box, c, m) == [box EXCEPT ![c] = Append(@, m)]

Viewers(rm, q) == UNION {rm[g][q] : g \in Gateways}

\* socket.connect() in the client's effect; the load balancer picks the
\* gateway process.
Connect(c, g) ==
    /\ sock[c] = NoGateway
    /\ sock' = [sock EXCEPT ![c] = g]
    /\ UNCHANGED <<zset, names, expireAt, now, req, issued, expected, joinSeq,
                   rooms, inbox, disp, lastEmit, touch, kv, scLog>>

\* 'join_quiz' with a valid payload: up to the await of the join call.
JoinQuiz(i, c, q, u, n) ==
    /\ FreeGwSlot(i)
    /\ sock[c] # NoGateway
    /\ req' = [req EXCEPT ![i] = [IdleReq EXCEPT !.pc = "zadd", !.op = "join",
                                   !.origin = "socket", !.client = c, !.gw = sock[c],
                                   !.quizId = q, !.userId = u, !.username = n]]
    /\ issued' = issued + 1
    /\ touch' = [touch EXCEPT ![q][u] = @ + 1]
    /\ UNCHANGED <<zset, names, expireAt, now, expected, joinSeq, gwVars, kv, scLog>>

\* 'submit_answer' with a valid payload: up to the await of the scoring call.
SubmitAnswer(i, c, q, u, n, sub) ==
    /\ FreeGwSlot(i)
    /\ sock[c] # NoGateway
    /\ req' = [req EXCEPT ![i] = [IdleReq EXCEPT !.pc = "scoring", !.op = "score",
                                   !.origin = "socket", !.client = c, !.gw = sock[c],
                                   !.quizId = q, !.userId = u, !.username = n,
                                   !.questionId = sub.questionId,
                                   !.answer = sub.answer]]
    /\ issued' = issued + 1
    /\ touch' = [touch EXCEPT ![q][u] = @ + 1]
    /\ UNCHANGED <<zset, names, expireAt, now, expected, joinSeq, gwVars, kv, scLog>>

\* A gateway that takes only the question from the scoring response and
\* posts that question's bonus whatever the engine said about the answer.
ScoringRespondBonusOnly(i) ==
    LET r == req[i]
        res == ScoreAnswer(r.questionId, r.answer)
        d == DIFFICULTY_BONUS[QUESTIONS[r.questionId].difficulty]
    IN
    /\ r.pc = "scoring"
    /\ res.status = 200
    /\ req' = [req EXCEPT ![i].pc = "zadd", ![i].correct = res.correct,
                          ![i].delta = d]
    /\ expected' = [expected EXCEPT ![r.quizId][r.userId] = @ + d]
    /\ UNCHANGED <<zset, names, expireAt, now, issued, joinSeq, gwVars, touch, kv, scLog>>

\* The scoring engine answers; the gateway posts the delta it returned to
\* the leaderboard service.
ScoringRespond(i) ==
    LET r == req[i]
        res == ScoreAnswer(r.questionId, r.answer)
    IN
    /\ r.pc = "scoring"
    /\ res.status = 200
    /\ req' = [req EXCEPT ![i].pc = "zadd", ![i].correct = res.correct,
                          ![i].delta = res.delta]
    /\ expected' = [expected EXCEPT ![r.quizId][r.userId] = @ + res.delta]
    /\ UNCHANGED <<zset, names, expireAt, now, issued, joinSeq, gwVars, touch, kv, scLog>>

\* A join_quiz that adds the socket to the room whatever the join call
\* answered.
GwJoinDoneAnyStatus(i) ==
    LET r == req[i]
        rm == [rooms EXCEPT ![r.gw][r.quizId] = @ \cup {r.client}]
        receivers == rm[r.gw][r.quizId]
    IN
    /\ r.pc = "responded" /\ r.origin = "socket" /\ r.op = "join"
    /\ rooms' = rm
    /\ inbox' = SendAck(EmitTo(inbox, receivers, r.resp), r.client,
                        Msg("join_ack", r.resp, FALSE, 0, 0))
    /\ lastEmit' = [op |-> "join", quizId |-> r.quizId, data |-> r.resp,
                    receivers |-> receivers, viewers |-> Viewers(rm, r.quizId)]
    /\ req' = [req EXCEPT ![i] = IdleReq]
    /\ UNCHANGED <<zset, names, expireAt, now, issued, expected, joinSeq, sock, disp, touch, kv, scLog>>

\* join_quiz after the join call returned: socket.join(room), broadcast to
\* the room, acknowledge.
GwJoinDone(i) ==
    LET r == req[i]
        rm == [rooms EXCEPT ![r.gw][r.quizId] = @ \cup {r.client}]
        receivers == rm[r.gw][r.quizId]
    IN
    /\ r.pc = "responded" /\ r.origin = "socket" /\ r.op = "join"
    /\ r.resp.status = 200
    /\ rooms' = rm
    /\ inbox' = SendAck(EmitTo(inbox, receivers, r.resp), r.client,
                        Msg("join_ack", r.resp, FALSE, 0, 0))
    /\ lastEmit' = [op |-> "join", quizId |-> r.quizId, data |-> r.resp,
                    receivers |-> receivers, viewers |-> Viewers(rm, r.quizId)]
    /\ req' = [req EXCEPT ![i] = IdleReq]
    /\ UNCHANGED <<zset, names, expireAt, now, issued, expected, joinSeq, sock, disp, touch, kv, scLog>>

\* A handler that acknowledges whatever the score call answered.
GwSubmitDoneAnyStatus(i) ==
    LET r == req[i]
        receivers == rooms[r.gw][r.quizId]
    IN
    /\ r.pc = "responded" /\ r.origin = "socket" /\ r.op = "score"
    /\ inbox' = EmitTo(SendAck(inbox, r.client,
                               Msg("submit_ack", NoResp, r.correct, r.delta,
                                   r.resp.userScore)),
                       receivers, r.resp)
    /\ lastEmit' = [op |-> "score", quizId |-> r.quizId, data |-> r.resp,
                    receivers |-> receivers, viewers |-> Viewers(rooms, r.quizId)]
    /\ req' = [req EXCEPT ![i] = IdleReq]
    /\ UNCHANGED <<zset, names, expireAt, now, issued, expected, joinSeq, sock, rooms,
                   disp, touch, kv, scLog>>

\* submit_answer after the score call returned: acknowledge, then broadcast
\* to the room.
GwSubmitDone(i) ==
    LET r == req[i]
        receivers == rooms[r.gw][r.quizId]
    IN
    /\ r.pc = "responded" /\ r.origin = "socket" /\ r.op = "score"
    /\ r.resp.status = 200
    /\ inbox' = EmitTo(SendAck(inbox, r.client,
                               Msg("submit_ack", NoResp, r.correct, r.delta,
                                   r.resp.userScore)),
                       receivers, r.resp)
    /\ lastEmit' = [op |-> "score", quizId |-> r.quizId, data |-> r.resp,
                    receivers |-> receivers, viewers |-> Viewers(rooms, r.quizId)]
    /\ req' = [req EXCEPT ![i] = IdleReq]
    /\ UNCHANGED <<zset, names, expireAt, now, issued, expected, joinSeq, sock, rooms,
                   disp, touch, kv, scLog>>

\* GET /leaderboard/:quizId of gateway g: a GET /sessions/:quizId without
\* a userId.
GwGetLeaderboard(i, g, q) ==
    /\ FreeGwSlot(i)
    /\ req' = [req EXCEPT ![i] = [IdleReq EXCEPT !.pc = "zrevrange", !.op = "get",
                                   !.origin = "gwhttp", !.gw = g, !.quizId = q]]
    /\ issued' = issued + 1
    /\ UNCHANGED <<zset, names, expireAt, now, expected, joinSeq, gwVars, touch, kv, scLog>>

\* res.json(data) of GET /leaderboard/:quizId.
GwGetDone(i) ==
    /\ req[i].pc = "responded" /\ req[i].origin = "gwhttp"
    /\ req' = [req EXCEPT ![i] = IdleReq]
    /\ UNCHANGED <<zset, names, expireAt, now, issued, expected, joinSeq, gwVars, touch, kv, scLog>>

\* The client handles the next message of its socket: the
\* 'leaderboard_update' handler, or the acknowledgement callback of
\* handleJoin / handleSubmitAnswer.
ClientRecv(c) ==
    LET m == Head(inbox[c]) IN
    /\ inbox[c] # <<>>
    /\ inbox' = [inbox EXCEPT ![c] = Tail(@)]
    /\ disp' = [disp EXCEPT ![c] =
                  CASE m.type = "leaderboard_update" ->
                         [@ EXCEPT !.leaderboard = m.data.leaderboard,
                                   !.userScore = m.data.userScore]
                    [] m.type = "join_ack" ->
                         [@ EXCEPT !.leaderboard = m.data.leaderboard,
                                   !.userScore = m.data.userScore,
                                   !.isJoined = TRUE]
                    [] m.type = "submit_ack" ->
                         [@ EXCEPT !.userScore = m.newScore]
                    [] m.type = "error_ack" -> @]
    /\ UNCHANGED <<zset, names, expireAt, now, req, issued, expected, joinSeq,
                   sock, rooms, lastEmit, touch, kv, scLog>>

Next ==
    \/ \E i \in Slots, q \in Sessions, u \in Users, n \in Names : PostJoin(i, q, u, n)
    \/ \E i \in Slots, q \in Sessions, u \in Users, n \in Names, d \in Deltas :
          PostScore(i, q, u, n, d)
    \/ \E i \in Slots, q \in Sessions, u \in Users \cup {NoUser} : GetSession(i, q, u)
    \/ \E i \in Slots : PipeZAdd(i)
    \/ \E i \in Slots : PipeHSet(i)
    \/ \E i \in Slots : PipeExpireLb(i)
    \/ \E i \in Slots : PipeExpireNames(i)
    \/ \E i \in Slots : ScoreZIncrBy(i)
    \/ \E i \in Slots : ReadZRevRange(i)
    \/ \E i \in Slots : ReadZScore(i)
    \/ \E i \in Slots : ReadHGetAll(i)
    \/ \E i \in Slots : HttpDone(i)

Spec == Init /\ [][Next]_vars

\* A session that already holds about as many participants as a Snapshot
\* lists: n participants other than Users, with scores 0, 10 and 20, all
\* registered by earlier joins at time 0.  Two more requests follow.
PreMembers(n) == (NumUsers + 1)..(NumUsers + n)
PreScore(m) == 10 * (m % 3)

InitPreloaded ==
    \E n \in {TopStop, TopStop + 1} :
        /\ zset = [q \in Sessions |->
                     {[member |-> m, score |-> PreScore(m)] : m \in PreMembers(n)}]
        /\ names = [q \in Sessions |-> [m \in PreMembers(n) |-> "Ann"]]
        /\ expireAt = [q \in Sessions |-> [lb |-> TTL, names |-> TTL]]
        /\ now = 0
        /\ req = [i \in Slots |-> IdleReq]
        /\ issued = 1
        /\ expected = [q \in Sessions |-> [u \in AllUsers |-> 0]]
        /\ joinSeq = [q \in Sessions |-> [k \in 1..n |-> NumUsers + k]]
        /\ sock = [c \in Clients |-> NoGateway]
        /\ rooms = [g \in Gateways |-> [q \in Sessions |-> {}]]
        /\ inbox = [c \in Clients |-> <<>>]
        /\ disp = [c \in Clients |->
                     [leaderboard |-> <<>>, userScore |-> 0, isJoined |-> FALSE]]
        /\ lastEmit = NoEmit
        /\ touch = [q \in Sessions |-> [u \in AllUsers |-> 0]]
        /\ kv = KvInit
        /\ scLog = ScInit

SpecPreloaded == InitPreloaded /\ [][Next]_vars

\* The whole system: clients reach the leaderboard service through the
\* gateway processes only.
ServiceStep ==
    \/ \E i \in Slots : PipeZAdd(i)
    \/ \E i \in Slots : PipeHSet(i)
    \/ \E i \in Slots : PipeExpireLb(i)
    \/ \E i \in Slots : PipeExpireNames(i)
    \/ \E i \in Slots : ScoreZIncrBy(i)
    \/ \E i \in Slots : ReadZRevRange(i)
    \/ \E i \in Slots : ReadZScore(i)
    \/ \E i \in Slots : ReadHGetAll(i)

NextGateway ==
    \/ \E c \in Clients, g \in Gateways : Connect(c, g)
    \/ \E i \in Slots, c \in Clients, q \in Sessions, u \in Users, n \in ClientNames :
          JoinQuiz(i, c, q, u, n)
    \/ \E i \in Slots, c \in Clients, q \in Sessions, u \in Users, n \in ClientNames,
          sub \in Submissions : SubmitAnswer(i, c, q, u, n, sub)
    \/ \E i \in Slots, g \in Gateways, q \in Sessions : GwGetLeaderboard(i, g, q)
    \/ \E i \in Slots : ScoringRespond(i)
    \/ ServiceStep
    \/ \E i \in Slots : GwJoinDone(i)
    \/ \E i \in Slots : GwSubmitDone(i)
    \/ \E i \in Slots : GwGetDone(i)
    \/ \E c \in Clients : ClientRecv(c)

SpecGateway == Init /\ [][NextGateway]_vars


(***************************************************************************)
(* Properties.                                                             *)
(***************************************************************************)
ScoreOf(q, u) == IF u \in Members(zset[q]) THEN ScoreIn(zset[q], u) ELSE 0

\* Request i is a recordDelta for (q, u) that has not completed yet.
ScoreInFlight(i, q, u) ==
    /\ req[i].op = "score" /\ req[i].quizId = q /\ req[i].userId = u
    /\ req[i].pc \notin {"idle", "responded"}

\* Slot i, and no other slot, moves in the step.
StepOf(i) == req'[i] # req[i] /\ \A j \in Slots \ {i} : req'[j] = req[j]

\* C1: once every recordDelta issued for (session, participant) has
\* completed, the stored score is the score before the calls (zero, the
\* store starts empty) plus the sum of all their deltas, whatever the
\* interleaving of the calls' store commands.
C1_SumOfDeltas ==
    \A q \in Sessions, u \in Users :
        (\A i \in Slots : ~ScoreInFlight(i, q, u)) => ScoreOf(q, u) = expected[q][u]

\* Two recordDelta calls for the same participant, +50 and -10, were in
\* flight together and both have completed.
C1_Witness ==
    /\ \A i \in {1, 2} : /\ req[i].op = "score" /\ req[i].pc = "responded"
                         /\ req[i].quizId = "q1" /\ req[i].userId = 1
    /\ {req[1].delta, req[2].delta} = {-10, 50}
    /\ req[1].incr # req[2].incr
    /\ ScoreOf("q1", 1) = 40

\* C2 (as claimed): the userScore of the Snapshot a recordDelta returns is
\* the value its own increment produced.
C2_OwnScoreIsIncrementResult ==
    \A i \in Slots :
        (req[i].op = "score" /\ req[i].pc = "responded")
            => req[i].resp.userScore = req[i].incr[1]

\* C3 (as claimed): a registered display name is never changed by a later
\* join or recordDelta.
C3_FirstWriteWins ==
    [][\A q \in Sessions : \A u \in DOMAIN names[q] :
          u \in DOMAIN names'[q] /\ names'[q][u] = names[q][u]]_vars

\* C4: a step of a join never changes the score of a participant that has
\* an entry, creates at most the zero-score entry of its own participant,
\* and no (session, participant) ever has two score entries.
C4_JoinStep ==
    \A i \in Slots :
        (req[i].op = "join" /\ StepOf(i)) =>
            \A q \in Sessions :
                /\ \A e \in zset[q] : e \in zset'[q]
                /\ \A e \in zset'[q] \ zset[q] :
                      /\ q = req[i].quizId
                      /\ e = [member |-> req[i].userId, score |-> 0]
                      /\ req[i].userId \notin Members(zset[q])

C4_OneEntry ==
    \A q \in Sessions : \A u \in Members(zset[q]) :
        Cardinality({e \in zset[q] : e.member = u}) = 1

C4_JoinKeepsScore == []C4_OneEntry /\ [][C4_JoinStep]_vars

\* A join has run its ZADD NX for a participant whose score is not zero,
\* while a recordDelta for the same participant is in flight.
C4_Witness ==
    \E i, j \in Slots :
        /\ req[i].op = "join" /\ req[i].pc = "hset"
        /\ ScoreOf(req[i].quizId, req[i].userId) # 0
        /\ req[j].op = "score" /\ req[j].userId = req[i].userId
        /\ req[j].pc = "zincrby"


\* C5: in every Snapshot a request returns, the leaderboard is ordered by
\* non-increasing score, lists participants of the session with their
\* scores, none of them scoring less than a participant it leaves out,
\* each once, and has exactly min(20, number of score entries) entries
\* (counted when the request read the ranking).
C5_TopEntries ==
    \A i \in Slots :
        req[i].pc = "responded" =>
            LET lb == req[i].resp.leaderboard
                z == req[i].seenZ
                listed == {[member |-> lb[k].userId, score |-> lb[k].score] :
                              k \in 1..Len(lb)}
            IN  /\ Len(lb) = Min(TopStop + 1, Cardinality(z))
                /\ \A k \in 1..Len(lb) - 1 : lb[k].score >= lb[k + 1].score
                /\ \A k \in 1..Len(lb) : lb[k].rank = k
                /\ listed \subseteq z
                /\ Cardinality(listed) = Len(lb)
                /\ \A x \in listed : \A y \in z \ listed : x.score >= y.score

\* A Snapshot of a session with more than 20 participants was returned: it
\* lists 20 of them and leaves a lower-scoring one out.
C5_Witness ==
    \E i \in Slots :
        /\ req[i].pc = "responded"
        /\ Cardinality(req[i].seenZ) > TopStop + 1
        /\ Len(req[i].resp.leaderboard) = TopStop + 1
        /\ \E e \in req[i].seenZ :
              e.score < req[i].resp.leaderboard[TopStop + 1].score

\* Position of member u in the order of entry creation.
JoinIndex(q, u) == CHOOSE k \in 1..Len(joinSeq[q]) : joinSeq[q][k] = u

\* C6 (as claimed): of two participants with equal scores, the one whose
\* score entry was created earlier is listed first.
C6_TiesByJoinOrder ==
    \A i \in Slots :
        req[i].pc = "responded" =>
            LET lb == req[i].resp.leaderboard IN
            \A k \in 1..Len(lb) - 1 :
                lb[k].score = lb[k + 1].score =>
                    JoinIndex(req[i].quizId, lb[k].userId)
                        < JoinIndex(req[i].quizId, lb[k + 1].userId)

\* C6 (amended): of two participants with equal scores, the one whose id
\* is lexicographically greater is listed first, whichever joined first.
C6_TiesByMemberDescending ==
    \A i \in Slots :
        req[i].pc = "responded" =>
            LET lb == req[i].resp.leaderboard IN
            \A k \in 1..Len(lb) - 1 :
                lb[k].score = lb[k + 1].score => lb[k].userId > lb[k + 1].userId

\* A Snapshot lists two participants with equal scores, the later joiner
\* first.
C6_Witness ==
    \E i \in Slots :
        /\ req[i].pc = "responded"
        /\ Len(req[i].resp.leaderboard) = 2
        /\ req[i].resp.leaderboard[1].score = req[i].resp.leaderboard[2].score
        /\ JoinIndex(req[i].quizId, req[i].resp.leaderboard[1].userId)
              > JoinIndex(req[i].quizId, req[i].resp.leaderboard[2].userId)

\* C7: no step of a snapshot request changes the ranked store, the name
\* registry or an expiry, and a snapshot for a participant without a score
\* entry (or without a userId, as the gateway's GET /leaderboard sends it)
\* returns userScore 0.
C7_ReadStep ==
    \A i \in Slots :
        (req[i].op = "get" /\ StepOf(i)) => UNCHANGED <<zset, names, expireAt>>

C7_UnknownScoresZero ==
    \A i \in Slots :
        (/\ req[i].op = "get" /\ req[i].pc = "responded"
         /\ req[i].userId \notin Members(zset[req[i].quizId]))
            => req[i].resp.userScore = 0

C7_SnapshotIsPureRead == []C7_UnknownScoresZero /\ [][C7_ReadStep]_vars

\* A snapshot for a participant who never joined has been answered from a
\* session that has other participants.
C7_Witness ==
    \E i \in Slots :
        /\ req[i].op = "get" /\ req[i].pc = "responded"
        /\ req[i].userId \in Users
        /\ req[i].userId \notin Members(zset[req[i].quizId])
        /\ req[i].userId \notin DOMAIN names[req[i].quizId]
        /\ Len(req[i].resp.leaderboard) > 0
        /\ req[i].resp.userScore = 0

\* C8 (as claimed): in every state the participants with a score entry are
\* the participants with a registered display name.
C8_EntriesMatchRegistry ==
    \A q \in Sessions : Members(zset[q]) = DOMAIN names[q]

\* C9 (as claimed): the leaderboard_update of a recordDelta is sent to
\* every socket that is in the session's room on any gateway process.
C9_AllViewersNotified ==
    lastEmit.op = "score" => lastEmit.viewers \subseteq lastEmit.receivers

CurrentBoard(q) == Entries(ZRevRange(zset[q], 0, TopStop), names[q], 0)

Quiescent ==
    /\ \A i \in Slots : req[i].pc = "idle"
    /\ \A c \in Clients : inbox[c] = <<>>

\* C10 (as claimed): when no request is in flight and every message has
\* been handled, each client in the session's room displays the Snapshot
\* of the current store state.
C10_ViewersConverge ==
    Quiescent =>
        \A c \in Clients, q \in Sessions :
            (sock[c] # NoGateway /\ c \in rooms[sock[c]][q])
                => disp[c].leaderboard = CurrentBoard(q)

(***************************************************************************)
(* Time.  Both keys of a session carry a Redis expiry (EXPIRE key 14400);  *)
(* Redis removes a key once the clock reaches its expiry.  An EXPIRE on a  *)
(* missing key does nothing, and a key created by ZADD, HSET or ZINCRBY    *)
(* starts without an expiry.  The clock moves between any two commands;   *)
(* while a handler is suspended it moves by at most MaxStall seconds.      *)
(***************************************************************************)
MaxStall == 1

\* The instants the model tells apart: the start, the last second before a
\* horizon set at 0, that horizon, and one full TTL after it.
TimePoints == {0, TTL - 1, TTL, 2 * TTL}

Expired(h, t) == h # NoExpiry /\ h <= t

Tick ==
    \E t \in TimePoints :
        /\ t > now
        /\ (\A i \in Slots : req[i].pc = "idle") \/ t - now <= MaxStall
        /\ now' = t
        /\ zset' = [q \in Sessions |->
                      IF Expired(expireAt[q].lb, t) THEN {} ELSE zset[q]]
        /\ names' = [q \in Sessions |->
                       IF Expired(expireAt[q].names, t) THEN EmptyHash ELSE names[q]]
        /\ expireAt' = [q \in Sessions |->
                          [lb    |-> IF Expired(expireAt[q].lb, t)
                                     THEN NoExpiry ELSE expireAt[q].lb,
                           names |-> IF Expired(expireAt[q].names, t)
                                     THEN NoExpiry ELSE expireAt[q].names]]
        /\ UNCHANGED <<req, issued, expected, joinSeq, gwVars, touch, kv, scLog>>

\* The store after one completed POST /sessions/q1/score for user 1 at
\* time 0: the state a running session is in.
InitWarm ==
    /\ zset = [q \in Sessions |-> {[member |-> 1, score |-> 50]}]
    /\ names = [q \in Sessions |-> [m \in {1} |-> "Ann"]]
    /\ expireAt = [q \in Sessions |-> [lb |-> TTL, names |-> TTL]]
    /\ now = 0
    /\ req = [i \in Slots |-> IdleReq]
    /\ issued = 1
    /\ expected = [q \in Sessions |-> [u \in AllUsers |-> IF u = 1 THEN 50 ELSE 0]]
    /\ joinSeq = [q \in Sessions |-> <<1>>]
    /\ sock = [c \in Clients |-> NoGateway]
    /\ rooms = [g \in Gateways |-> [q \in Sessions |-> {}]]
    /\ inbox = [c \in Clients |-> <<>>]
    /\ disp = [c \in Clients |->
                 [leaderboard |-> <<>>, userScore |-> 0, isJoined |-> FALSE]]
    /\ lastEmit = NoEmit
    /\ touch = [q \in Sessions |-> [u \in AllUsers |-> IF u = 1 THEN 1 ELSE 0]]
    /\ kv = KvInit
    /\ scLog = ScInit

NextTTL == Next \/ Tick

SpecTTL == InitWarm /\ [][NextTTL]_vars

\* The last store write of a join (the second EXPIRE of ensureUser) or of a
\* score update (ZINCRBY).
LastWrite(i) ==
    /\ StepOf(i)
    /\ \/ req[i].op = "join" /\ req[i].pc = "expire_names"
       \/ req[i].pc = "zincrby"

\* No join or score update of session q is between its first and its last
\* store write.
Quiet(q) ==
    \A i \in Slots :
        req[i].quizId = q =>
            req[i].pc \notin {"zadd", "hset", "expire_lb", "expire_names", "zincrby"}

\* C11 (as claimed): when a join or a score update has made its last write
\* to session S, both the ranked-store key and the registry key of S exist
\* and each carries an expiry horizon that lies a full TTL (up to the time
\* that passed inside the call) after that write.
C11_WriteRefreshesBothKeys ==
    [][\A i \in Slots :
          LastWrite(i) =>
              LET q == req[i].quizId IN
              /\ zset'[q] # {}
              /\ DOMAIN names'[q] # {}
              /\ expireAt'[q].lb > now' /\ expireAt'[q].lb <= now' + TTL
              /\ expireAt'[q].names > now' /\ expireAt'[q].names <= now' + TTL]_vars

\* C12 (as claimed): once a full TTL has passed over session S with no write
\* in between, S is gone: the ranked store and the registry of S are empty,
\* so a read returns an empty leaderboard and a first join sees nobody from
\* before.
C12_ExpiryResetsSession ==
    [][\A q \in Sessions :
          (Quiet(q) /\ now' - now >= TTL) =>
              (zset'[q] = {} /\ DOMAIN names'[q] = {})]_vars

(***************************************************************************)
(* Store failures.  A Redis command may fail.  The four commands of        *)
(* ensureUser go through pipeline.exec(), which resolves with one          *)
(* [error, result] pair per command; ensureUser does not look at them.     *)
(* redis.zincrby and the three reads are awaited directly: a failure       *)
(* rejects, the route's catch runs handleError and the call answers 500.   *)
(***************************************************************************)
\* Failed commands per call.
MaxFaults == 1

\* res.status(code).json({ error: message })
ErrorResp(code) == [status |-> code, quizId |-> "", leaderboard |-> <<>>, userScore |-> 0]

AfterPipe(r) ==
    CASE r.pc = "zadd" -> "hset"
      [] r.pc = "hset" -> "expire_lb"
      [] r.pc = "expire_lb" -> "expire_names"
      [] r.pc = "expire_names" -> IF r.op = "score" THEN "zincrby" ELSE "zrevrange"

\* One command of the ensureUser pipeline fails: nothing is written, the
\* handler goes on.
PipeFail(i) ==
    LET r == req[i] IN
    /\ r.pc \in {"zadd", "hset", "expire_lb", "expire_names"}
    /\ r.fails < MaxFaults
    /\ req' = [req EXCEPT ![i].pc = AfterPipe(r), ![i].fails = @ + 1]
    /\ UNCHANGED <<zset, names, expireAt, now, issued, expected, joinSeq, gwVars, touch, kv, scLog>>

\* An awaited command fails: handleError answers 500.
CmdFail(i) ==
    LET r == req[i] IN
    /\ r.pc \in {"zincrby", "zrevrange", "zscore", "hgetall"}
    /\ r.fails < MaxFaults
    /\ req' = [req EXCEPT ![i].pc = "responded", ![i].fails = @ + 1,
                          ![i].resp = ErrorResp(500)]
    /\ UNCHANGED <<zset, names, expireAt, now, issued, expected, joinSeq, gwVars, touch, kv, scLog>>

NextFaults ==
    \/ Next
    \/ \E i \in Slots : PipeFail(i)
    \/ \E i \in Slots : CmdFail(i)

SpecFaults == InitWarm /\ [][NextFaults]_vars

\* C13 (as claimed): a score update that answers 500 has not applied its
\* increment.
C13_FailureMeansNotApplied ==
    \A i \in Slots :
        (req[i].op = "score" /\ req[i].pc = "responded" /\ req[i].resp.status = 500)
            => req[i].incr = <<>>

\* C15 (as claimed): a join or score update in which a store write failed
\* does not answer with a successful Snapshot.
C15_WriteFailurePropagates ==
    \A i \in Slots :
        (req[i].op \in {"join", "score"} /\ req[i].pc = "responded" /\ req[i].fails > 0)
            => req[i].resp.status # 200

\* C16 (as claimed): a call that met a single transient store failure does
\* not report an error; the failed command was retried.
C16_SingleFailureIsRetried ==
    \A i \in Slots :
        (req[i].pc = "responded" /\ req[i].fails = 1) => req[i].resp.status = 200

(***************************************************************************)
(* Request bodies as express.json() hands them to the routes.  A field is  *)
(* a type tag (typeof) and a value; userId "" is NoUser, a missing or      *)
(* non-string username has value "".                                       *)
(***************************************************************************)
UserIdFields == {<<"string", NoUser>>, <<"string", 1>>, <<"number", 1>>,
                 <<"undefined", NoUser>>}
UsernameFields == {<<"string", "">>, <<"string", "Ann">>, <<"number", "">>,
                   <<"undefined", "">>}
DeltaFields == {<<"number", -10>>, <<"string", 0>>, <<"undefined", 0>>}

NullBody ==
    [t |-> "null", userIdT |-> "undefined", userId |-> NoUser,
     usernameT |-> "undefined", username |-> "", deltaT |-> "undefined", delta |-> 0]

Bodies ==
    {[t |-> "object", userIdT |-> a[1], userId |-> a[2],
      usernameT |-> b[1], username |-> b[2], deltaT |-> c[1], delta |-> c[2]] :
        a \in UserIdFields, b \in UsernameFields, c \in DeltaFields}
    \cup {NullBody}

isJoinRequestAnyString(value) ==
    /\ value.t = "object"
    /\ value.userIdT = "string"
    /\ value.usernameT = "string"

isJoinRequest(value) ==
    /\ value.t = "object"
    /\ value.userIdT = "string" /\ value.userId # NoUser
    /\ value.usernameT = "string" /\ value.username # ""

isScoreRequest(value) ==
    /\ isJoinRequest(value)
    /\ value.deltaT = "number"

\* What the contract calls an invalid body.
InvalidBody(op, body) ==
    \/ body.t # "object"
    \/ body.userIdT # "string" \/ body.userId = NoUser
    \/ body.usernameT # "string" \/ body.username = ""
    \/ op = "score" /\ body.deltaT # "number"

\* POST /sessions/:quizId/join or /score with any body, up to the first
\* await or to the 400 response.
PostBody(i, op, q, body) ==
    LET ok == IF op = "join" THEN isJoinRequest(body) ELSE isScoreRequest(body)
        d  == IF op = "score" THEN body.delta ELSE 0
    IN
    /\ FreeSlot(i)
    /\ issued' = issued + 1
    /\ IF ok
       THEN /\ req' = [req EXCEPT ![i] =
                         [IdleReq EXCEPT !.pc = "zadd", !.op = op, !.origin = "http",
                                         !.quizId = q, !.userId = body.userId,
                                         !.username = body.username, !.delta = d,
                                         !.bad = InvalidBody(op, body)]]
            /\ touch' = [touch EXCEPT ![q][body.userId] = @ + 1]
            /\ expected' = [expected EXCEPT ![q][body.userId] = @ + d]
       ELSE /\ req' = [req EXCEPT ![i] =
                         [IdleReq EXCEPT !.pc = "responded", !.op = op,
                                         !.origin = "http", !.quizId = q,
                                         !.resp = ErrorResp(400),
                                         !.bad = InvalidBody(op, body)]]
            /\ UNCHANGED <<touch, expected>>
    /\ UNCHANGED <<zset, names, expireAt, now, joinSeq, gwVars, kv, scLog>>

NextInput ==
    \/ \E i \in Slots, op \in {"join", "score"}, q \in Sessions, body \in Bodies :
          PostBody(i, op, q, body)
    \/ ServiceStep
    \/ \E i \in Slots : CmdFail(i)
    \/ \E i \in Slots : HttpDone(i)

SpecInput == Init /\ [][NextInput]_vars

C17_Answered ==
    \A i \in Slots :
        req[i].pc # "idle" =>
            /\ req[i].bad => (req[i].pc = "responded" /\ req[i].resp.status = 400)
            /\ ~req[i].bad => req[i].resp.status \in {0, 200, 500}
            /\ req[i].resp.status = 500 => req[i].fails > 0

C17_NoStoreStep ==
    \A i \in Slots :
        (StepOf(i) /\ (req[i].bad \/ req'[i].bad)) => UNCHANGED <<zset, names, expireAt>>

\* C17: a join or score request whose body is invalid is answered 400 at
\* once, no step of it touches the store, and 400 is given for invalid
\* bodies only (a store failure answers 500).
C17_InvalidBodyRejected == []C17_Answered /\ [][C17_NoStoreStep]_vars

\* An invalid score body has been answered 400 on a populated session while
\* a valid request is running.
C17_Witness ==
    \E i, j \in Slots :
        /\ req[i].bad /\ req[i].op = "score" /\ req[i].resp.status = 400
        /\ req[j].pc = "zrevrange" /\ req[j].op = "join"
        /\ zset["q1"] # {}

(***************************************************************************)
(* Gateway with failing and unresponsive downstream services.  axios       *)
(* rejects on a network error and on any answer outside 2xx; the handlers' *)
(* catch sends the error acknowledgement.  No timeout is configured on the *)
(* axios calls, so a call that is never answered is never settled.         *)
(***************************************************************************)
ErrorAck == Msg("error_ack", NoResp, FALSE, 0, 0)

\* sendAck(ack, { error: '...' })
ErrorAckOf(error) == [ErrorAck EXCEPT !.error = error]

\* The call to the scoring engine fails: catch, error acknowledgement.
ScoringFail(i) ==
    LET r == req[i] IN
    /\ r.pc = "scoring"
    /\ inbox' = SendAck(inbox, r.client, ErrorAckOf("Failed to process answer"))
    /\ req' = [req EXCEPT ![i] = IdleReq]
    /\ UNCHANGED <<zset, names, expireAt, now, issued, expected, joinSeq, sock, rooms,
                   disp, lastEmit, touch, kv, scLog>>

\* join_quiz: the join call was answered 500.
GwJoinFail(i) ==
    LET r == req[i] IN
    /\ r.pc = "responded" /\ r.origin = "socket" /\ r.op = "join"
    /\ r.resp.status # 200
    /\ inbox' = SendAck(inbox, r.client, ErrorAckOf("Failed to join quiz"))
    /\ req' = [req EXCEPT ![i] = IdleReq]
    /\ UNCHANGED <<zset, names, expireAt, now, issued, expected, joinSeq, sock, rooms,
                   disp, lastEmit, touch, kv, scLog>>

\* submit_answer: the score call was answered 500.
GwSubmitFail(i) ==
    LET r == req[i] IN
    /\ r.pc = "responded" /\ r.origin = "socket" /\ r.op = "score"
    /\ r.resp.status # 200
    /\ inbox' = SendAck(inbox, r.client, ErrorAckOf("Failed to process answer"))
    /\ req' = [req EXCEPT ![i] = IdleReq]
    /\ UNCHANGED <<zset, names, expireAt, now, issued, expected, joinSeq, sock, rooms,
                   disp, lastEmit, touch, kv, scLog>>

\* The downstream call of a socket handler is never answered: the scoring
\* engine hangs, or the leaderboard service waits for a store that stalls.
Stall(i) ==
    LET r == req[i] IN
    /\ r.origin = "socket"
    /\ r.pc \in {"scoring", "zadd", "hset", "expire_lb", "expire_names", "zincrby",
                 "zrevrange", "zscore", "hgetall"}
    /\ req' = [req EXCEPT ![i].pc = "stalled"]
    /\ UNCHANGED <<zset, names, expireAt, now, issued, expected, joinSeq, gwVars, touch, kv, scLog>>

NextGatewayFaults ==
    \/ NextGateway
    \/ \E i \in Slots : CmdFail(i)
    \/ \E i \in Slots : ScoringFail(i)
    \/ \E i \in Slots : GwJoinFail(i)
    \/ \E i \in Slots : GwSubmitFail(i)
    \/ \E i \in Slots : Stall(i)

SpecGatewayFaults == Init /\ [][NextGatewayFaults]_vars

\* The types of the messages a step appended to the socket of client c.
Sent(c) ==
    IF c = NoClient THEN {}
    ELSE {inbox'[c][k].type : k \in (Len(inbox[c]) + 1)..Len(inbox'[c])}

C14_AckStep(i) ==
    LET r == req[i] IN
    (StepOf(i) /\ r.origin = "socket" /\ r.op = "score" /\ req'[i].pc = "idle") =>
        /\ "submit_ack" \in Sent(r.client) =>
              /\ r.resp.status = 200
              /\ r.incr # <<>>
              /\ inbox'[r.client][Len(inbox[r.client]) + 1] =
                     Msg("submit_ack", NoResp, r.correct, r.delta, r.resp.userScore)
        /\ (r.pc = "scoring" \/ r.resp.status # 200) =>
              /\ Sent(r.client) = {"error_ack"}
              /\ Len(inbox'[r.client]) = Len(inbox[r.client]) + 1
              /\ \A c \in Clients \ {r.client} : inbox'[c] = inbox[c]

\* C14: a submit_answer handler acknowledges with correct/delta/newScore
\* only when the score update answered 200 after applying its increment;
\* when the scoring call or the score update failed it sends the error
\* acknowledgement and nothing else.
C14_AckOnlyAfterApplied == [][\A i \in Slots : C14_AckStep(i)]_vars

\* One client holds the error acknowledgement of a failed submission and
\* the acknowledgement of a correct answer whose delta was applied.
C14_Witness ==
    \E c \in Clients :
        \E k, l \in 1..Len(inbox[c]) :
            /\ inbox[c][k].type = "error_ack"
            /\ inbox[c][l].type = "submit_ack" /\ inbox[c][l].correct
            /\ inbox[c][l].newScore = 50
            /\ \E q \in Sessions, u \in Users :
                   u \in Members(zset[q]) /\ ScoreIn(zset[q], u) = 50

\* A step in which the handler of slot i acknowledges.
Acknowledge(i) ==
    GwJoinDone(i) \/ GwSubmitDone(i) \/ GwJoinFail(i) \/ GwSubmitFail(i)

\* C18 (as claimed): a join_quiz or submit_answer handler whose downstream
\* call is never answered can still send its acknowledgement.
C18_StalledHandlerAcks ==
    \A i \in Slots :
        (req[i].origin = "socket" /\ req[i].pc = "stalled") => ENABLED Acknowledge(i)

(***************************************************************************)
(* A sequential run of the service: each request is sent when the previous *)
(* one has been answered.                                                  *)
(***************************************************************************)
\* Two participants: the least user id and the next one.
alice == CHOOSE u \in Users : \A v \in Users : u <= v
bob == alice + 1

Script ==
    <<[op |-> "join",  userId |-> alice, delta |-> 0],
      [op |-> "score", userId |-> alice, delta |-> 75],
      [op |-> "join",  userId |-> bob,   delta |-> 0],
      [op |-> "score", userId |-> bob,   delta |-> 120],
      [op |-> "score", userId |-> alice, delta |-> -10]>>

\* The next request of the script, with any display name.
ScriptRequest(n) ==
    LET e == Script[issued + 1] IN
    /\ issued < Len(Script)
    /\ \A j \in Slots : req[j].pc = "idle"
    /\ req' = [req EXCEPT ![1] = [IdleReq EXCEPT !.pc = "zadd", !.op = e.op,
                                   !.origin = "http", !.quizId = "q1",
                                   !.userId = e.userId, !.username = n,
                                   !.delta = e.delta]]
    /\ issued' = issued + 1
    /\ touch' = [touch EXCEPT !["q1"][e.userId] = @ + 1]
    /\ expected' = [expected EXCEPT !["q1"][e.userId] = @ + e.delta]
    /\ UNCHANGED <<zset, names, expireAt, now, joinSeq, gwVars, kv, scLog>>

NextScript ==
    \/ \E n \in Names : ScriptRequest(n)
    \/ ServiceStep
    \/ \E i \in Slots : HttpDone(i)

SpecScript == Init /\ [][NextScript]_vars

\* The userId, score and rank of the entries of a leaderboard.
Ranking(lb) == [k \in 1..Len(lb) |-> <<lb[k].userId, lb[k].score, lb[k].rank>>]

\* C19: in the sequential run join(alice), +75 for alice, join(bob), +120
\* for bob, -10 for alice on the empty session q1, the second answer ranks
\* alice first with 75, the fourth ranks bob first with 120 and alice second
\* with 75, and the fifth shows alice with 65 and the ranks unchanged.
C19_Scenario ==
    \A i \in Slots :
        req[i].pc = "responded" =>
            LET lb == Ranking(req[i].resp.leaderboard) IN
            /\ issued = 2 => lb = <<<<alice, 75, 1>>>>
            /\ issued = 4 => lb = <<<<bob, 120, 1>>, <<alice, 75, 2>>>>
            /\ issued = 5 => /\ lb = <<<<bob, 120, 1>>, <<alice, 65, 2>>>>
                             /\ req[i].resp.userScore = 65

\* The fifth step has been answered.
C19_Witness ==
    \E i \in Slots :
        /\ req[i].pc = "responded" /\ issued = 5
        /\ req[i].op = "score" /\ req[i].delta = -10
        /\ ScoreOf("q1", alice) = 65 /\ ScoreOf("q1", bob) = 120

(***************************************************************************)
(* A score update for a participant nobody has sent a request for before.  *)
(***************************************************************************)
\* Request i is a score update and the only request ever sent for its
\* participant.
FirstContact(i) ==
    /\ req[i].op = "score"
    /\ req[i].userId \in Users
    /\ touch[req[i].quizId][req[i].userId] = 1

Listed(lb, u, n, sc) ==
    \E k \in 1..Len(lb) :
        lb[k].userId = u /\ lb[k].username = n /\ lb[k].score = sc

C20_EntryBeforeIncrement ==
    \A i \in Slots :
        (FirstContact(i) /\ req[i].pc = "zincrby") =>
            LET q == req[i].quizId
                u == req[i].userId
            IN  /\ u \in Members(zset[q]) /\ ScoreIn(zset[q], u) = 0
                /\ u \in DOMAIN names[q] /\ names[q][u] = req[i].username

\* C20 (as claimed): a score update for a participant who never joined
\* returns a Snapshot whose userScore is the delta and whose leaderboard
\* lists the participant with the supplied name and the delta as score.
C20_ListedWithDelta ==
    \A i \in Slots :
        (FirstContact(i) /\ req[i].pc = "responded") =>
            /\ req[i].resp.userScore = req[i].delta
            /\ Listed(req[i].resp.leaderboard, req[i].userId, req[i].username,
                      req[i].delta)

\* C20 (amended): the zero entry and the name are written before the
\* increment, the resulting score and the returned userScore equal the
\* delta, and the participant is listed with the supplied name unless
\* TopStop + 1 entries rank ahead of it.
C20_ListedIfInTop ==
    /\ C20_EntryBeforeIncrement
    /\ \A i \in Slots :
          (FirstContact(i) /\ req[i].pc = "responded") =>
              LET r == req[i]
                  lb == r.resp.leaderboard
              IN  /\ r.incr = <<r.delta>>
                  /\ r.resp.userScore = r.delta
                  /\ \/ Listed(lb, r.userId, r.username, r.delta)
                     \/ /\ Len(lb) = TopStop + 1
                        /\ \A k \in 1..Len(lb) :
                              \/ lb[k].score > r.delta
                              \/ lb[k].score = r.delta /\ lb[k].userId > r.userId

\* A first score update of -10 was answered on a session whose twenty
\* listed entries all rank ahead of the new participant.
C20_Witness ==
    \E i \in Slots :
        /\ FirstContact(i) /\ req[i].pc = "responded"
        /\ req[i].delta = -10 /\ req[i].resp.userScore = -10
        /\ Len(req[i].resp.leaderboard) = TopStop + 1
        /\ ~Listed(req[i].resp.leaderboard, req[i].userId, req[i].username, -10)

(***************************************************************************)
(* The leaderboard service at the level of Redis keys.  The routes take    *)
(* any quizId; the commands go to leaderboardKey(quizId) and               *)
(* usernamesKey(quizId).  A command sent to a key that holds the other     *)
(* data type is answered WRONGTYPE: inside the ensureUser pipeline the     *)
(* error is dropped, an awaited command rejects and the route answers 500. *)
(* Redis keeps no empty sorted set or hash, so a key's type is what it     *)
(* holds.                                                                  *)
(***************************************************************************)
IsZSet(k) == kv[k].z # {}
IsHash(k) == DOMAIN kv[k].h # {}

\* The quizId as the string the response carries.
QuizIdString(quizId) ==
    IF quizId = <<"q1">> THEN "q1"
    ELSE IF quizId = <<"q2">> THEN "q2" ELSE "q1:usernames"

KeyPcs == {"k_zadd", "k_hset", "k_expire_lb", "k_expire_names", "k_zincrby",
           "k_zrevrange", "k_zscore", "k_hgetall"}

\* GET /sessions/:quizId?userId=u, POST .../join, POST .../score.
KeyRequest(i, op, quizId, u) ==
    /\ FreeSlot(i)
    /\ req' = [req EXCEPT ![i] =
                 [IdleReq EXCEPT !.pc = IF op = "get" THEN "k_zrevrange" ELSE "k_zadd",
                                 !.op = op, !.origin = "http", !.qid = quizId,
                                 !.userId = u, !.username = "Ann",
                                 !.delta = IF op = "score" THEN 50 ELSE 0]]
    /\ issued' = issued + 1
    /\ UNCHANGED <<zset, names, expireAt, now, expected, joinSeq, gwVars, touch, kv, scLog>>

KeyReply(i, pc) ==
    /\ req' = [req EXCEPT ![i].pc = pc]
    /\ UNCHANGED <<zset, names, expireAt, now, issued, expected, joinSeq, gwVars, touch,
                   scLog>>

KeyZAdd(i) ==
    LET r == req[i]
        k == leaderboardKey(r.qid)
    IN
    /\ r.pc = "k_zadd"
    /\ kv' = IF IsHash(k) THEN kv ELSE [kv EXCEPT ![k].z = ZAddNX(@, 0, r.userId)]
    /\ KeyReply(i, "k_hset")

KeyHSet(i) ==
    LET r == req[i]
        k == usernamesKey(r.qid)
    IN
    /\ r.pc = "k_hset"
    /\ kv' = IF IsZSet(k) THEN kv ELSE [kv EXCEPT ![k].h = HSet(@, r.userId, r.username)]
    /\ KeyReply(i, "k_expire_lb")

KeyExpireLb(i) ==
    LET r == req[i]
        k == leaderboardKey(r.qid)
    IN
    /\ r.pc = "k_expire_lb"
    /\ kv' = [kv EXCEPT ![k].exp = Expire(IsZSet(k) \/ IsHash(k), @, TTL)]
    /\ KeyReply(i, "k_expire_names")

KeyExpireNames(i) ==
    LET r == req[i]
        k == usernamesKey(r.qid)
    IN
    /\ r.pc = "k_expire_names"
    /\ kv' = [kv EXCEPT ![k].exp = Expire(IsZSet(k) \/ IsHash(k), @, TTL)]
    /\ KeyReply(i, IF r.op = "score" THEN "k_zincrby" ELSE "k_zrevrange")

\* An awaited command was answered WRONGTYPE: handleError.
KeyWrongType(i) ==
    /\ req' = [req EXCEPT ![i].pc = "responded", ![i].resp = ErrorResp(500)]
    /\ UNCHANGED <<zset, names, expireAt, now, issued, expected, joinSeq, gwVars, touch,
                   kv, scLog>>

KeyZIncrBy(i) ==
    LET r == req[i]
        k == leaderboardKey(r.qid)
    IN
    /\ r.pc = "k_zincrby"
    /\ IF IsHash(k) THEN KeyWrongType(i)
       ELSE /\ kv' = [kv EXCEPT ![k].z = ZIncrBy(@, r.delta, r.userId)]
            /\ KeyReply(i, "k_zrevrange")

KeyZRevRange(i) ==
    LET r == req[i]
        k == leaderboardKey(r.qid)
    IN
    /\ r.pc = "k_zrevrange"
    /\ IF IsHash(k) THEN KeyWrongType(i)
       ELSE /\ req' = [req EXCEPT ![i].pc = "k_zscore",
                                  ![i].top = ZRevRange(kv[k].z, 0, TopStop)]
            /\ UNCHANGED <<zset, names, expireAt, now, issued, expected, joinSeq, gwVars,
                           touch, kv, scLog>>

KeyZScore(i) ==
    LET r == req[i]
        k == leaderboardKey(r.qid)
    IN
    /\ r.pc = "k_zscore"
    /\ IF IsHash(k) THEN KeyWrongType(i)
       ELSE /\ req' = [req EXCEPT ![i].pc = "k_hgetall",
                                  ![i].userScoreValue = ZScore(kv[k].z, r.userId)]
            /\ UNCHANGED <<zset, names, expireAt, now, issued, expected, joinSeq, gwVars,
                           touch, kv, scLog>>

KeyHGetAll(i) ==
    LET r == req[i]
        k == usernamesKey(r.qid)
    IN
    /\ r.pc = "k_hgetall"
    /\ IF IsZSet(k) THEN KeyWrongType(i)
       ELSE /\ req' = [req EXCEPT ![i].pc = "responded",
                                  ![i].resp = BuildResponse(QuizIdString(r.qid), r.top,
                                                            r.userScoreValue, kv[k].h)]
            /\ UNCHANGED <<zset, names, expireAt, now, issued, expected, joinSeq, gwVars,
                           touch, kv, scLog>>

NextKeys ==
    \/ \E i \in Slots, op \in {"get", "join", "score"}, q \in QuizIds, u \in Users :
          KeyRequest(i, op, q, u)
    \/ \E i \in Slots : KeyZAdd(i)
    \/ \E i \in Slots : KeyHSet(i)
    \/ \E i \in Slots : KeyExpireLb(i)
    \/ \E i \in Slots : KeyExpireNames(i)
    \/ \E i \in Slots : KeyZIncrBy(i)
    \/ \E i \in Slots : KeyZRevRange(i)
    \/ \E i \in Slots : KeyZScore(i)
    \/ \E i \in Slots : KeyHGetAll(i)
    \/ \E i \in Slots : HttpDone(i)

SpecKeys == Init /\ [][NextKeys]_vars

\* C21 (as claimed): a step of a join or score update on session B leaves
\* both keys of every other session A as they were: scores, display names
\* and expiries.
C21_SessionsIsolated ==
    [][\A i \in Slots :
          (req[i].pc \in KeyPcs /\ req'[i].pc # req[i].pc /\ req[i].op # "get") =>
              \A A \in QuizIds \ {req[i].qid} :
                  /\ kv'[leaderboardKey(A)] = kv[leaderboardKey(A)]
                  /\ kv'[usernamesKey(A)] = kv[usernamesKey(A)]]_vars

(***************************************************************************)
(* The service with a participant whose id names a member of               *)
(* Object.prototype.                                                       *)
(***************************************************************************)
NextProto ==
    \/ \E i \in Slots, u \in {1, ProtoUser} : PostJoin(i, "q1", u, "Ann")
    \/ \E i \in Slots, u \in {1, ProtoUser} : PostScore(i, "q1", u, "Ann", 50)
    \/ \E i \in Slots, u \in {1, ProtoUser, NoUser} : GetSession(i, "q1", u)
    \/ ServiceStep
    \/ \E i \in Slots : HttpDone(i)

SpecProto == Init /\ [][NextProto]_vars

\* C22 (as claimed): when the reads of a Snapshot have been answered the
\* Snapshot is built (status 200), every entry carries the member, score
\* and rank of its place in the ZREVRANGE reply, and an entry whose member
\* has no field in the registry is named 'Anonymous'.
C22_AnonymousFallback ==
    [][\A i \in Slots :
          (StepOf(i) /\ req[i].pc = "hgetall") =>
              LET r == req[i]
                  lb == req'[i].resp.leaderboard
              IN  /\ req'[i].resp.status = 200
                  /\ Len(lb) * 2 = Len(r.top)
                  /\ \A k \in 1..Len(lb) :
                        /\ lb[k].userId = r.top[2 * k - 1]
                        /\ lb[k].score = r.top[2 * k]
                        /\ lb[k].rank = k
                        /\ lb[k].userId \notin DOMAIN names[r.quizId]
                              => lb[k].username = "Anonymous"]_vars

(***************************************************************************)
(* The scoring engine on its own.  A payload is what express.json() hands  *)
(* to POST /score: each field is a type tag (typeof) and a value; the ids  *)
(* are strings, the answer is a sequence of characters.  scLog records the *)
(* exchanges in the order the engine served them.                          *)
(***************************************************************************)
MaxScoreReqs == 2

Gregarious == QUESTIONS["vocab-3"].answer
Aberration == QUESTIONS["vocab-4"].answer

Answers ==
    {Gregarious,
     <<" ", "G">> \o Tail(Gregarious) \o <<" ", "\t">>,
     Aberration,
     <<"A", "B", "E", "R", "R", "A", "T", "I", "O", "N">>,
     QUESTIONS["vocab-1"].answer,
     <<"l", "u", "c", "k">>,
     <<" ">>}

QuizIdFields == {<<"string", "q1">>, <<"string", "q2">>, <<"undefined", "">>}
PlayerIdFields == {<<"string", "u1">>, <<"string", "u2">>, <<"number", "">>}
QuestionIdFields ==
    {<<"string", "vocab-1">>, <<"string", "vocab-3">>, <<"string", "vocab-4">>,
     <<"string", "vocab-9">>, <<"string", "constructor">>, <<"string", "">>}
AnswerFields ==
    {<<"string", a>> : a \in Answers}
    \cup {<<"string", <<>>>>, <<"number", <<>>>>}

NullPayload ==
    [t |-> "null", quizId |-> <<"undefined", "">>, userId |-> <<"undefined", "">>,
     questionId |-> <<"undefined", "">>, answer |-> <<"undefined", <<>>>>]

Payloads ==
    {[t |-> "object", quizId |-> a, userId |-> b, questionId |-> c, answer |-> d] :
        a \in QuizIdFields, b \in PlayerIdFields, c \in QuestionIdFields,
        d \in AnswerFields}
    \cup {NullPayload}

\* isScoreRequest of the scoring engine (the leaderboard service has a
\* validator of the same name).
isScoringRequest(value) ==
    /\ value.t = "object"
    /\ \A field \in {value.quizId, value.userId, value.questionId} :
          field[1] = "string" /\ field[2] # ""
    /\ value.answer[1] = "string" /\ Len(value.answer[2]) > 0

InvalidScorePayload == [status |-> 400, error |-> "Invalid score payload",
                        correct |-> FALSE, delta |-> 0]

\* A POST /score handler whose penalty grows for the second participant.
ScoreResponseByUser(payload) ==
    IF ~isScoringRequest(payload)
    THEN InvalidScorePayload
    ELSE LET res == ScoreAnswer(payload.questionId[2], payload.answer[2])
         IN  [status |-> res.status, error |-> "", correct |-> res.correct,
              delta |-> IF payload.userId[2] = "u2" /\ ~res.correct
                        THEN res.delta - 10 ELSE res.delta]

\* The POST /score handler: the response to a payload.
ScoreResponse(payload) ==
    IF ~isScoringRequest(payload)
    THEN InvalidScorePayload
    ELSE LET res == ScoreAnswer(payload.questionId[2], payload.answer[2])
         IN  [status |-> res.status, error |-> "", correct |-> res.correct,
              delta |-> res.delta]

EnginePostScore(payload) ==
    /\ Len(scLog) < MaxScoreReqs
    /\ scLog' = Append(scLog, [payload |-> payload, resp |-> ScoreResponse(payload)])
    /\ UNCHANGED <<zset, names, expireAt, now, req, issued, expected, joinSeq,
                   gwVars, touch, kv>>

NextScoring == \E payload \in Payloads : EnginePostScore(payload)

SpecScoring == Init /\ [][NextScoring]_vars

\* What the contract calls a valid score request, and a match of an answer
\* with a canonical answer: the letters between the first and the last
\* character that is not whitespace agree up to case.
ValidScorePayload(p) ==
    /\ p.t = "object"
    /\ p.quizId[1] = "string" /\ p.quizId[2] # ""
    /\ p.userId[1] = "string" /\ p.userId[2] # ""
    /\ p.questionId[1] = "string" /\ p.questionId[2] # ""
    /\ p.answer[1] = "string" /\ p.answer[2] # <<>>

Inked(s) == {k \in DOMAIN s : s[k] \notin WhiteSpace}

Core(s) ==
    IF Inked(s) = {} THEN <<>>
    ELSE SubSeq(s, CHOOSE k \in Inked(s) : \A m \in Inked(s) : k <= m,
                   CHOOSE k \in Inked(s) : \A m \in Inked(s) : k >= m)

SameLetter(c, d) ==
    \/ c = d
    \/ \E k \in DOMAIN UpperCase : {c, d} = {UpperCase[k], LowerCase[k]}

Matches(a, b) ==
    /\ Len(Core(a)) = Len(Core(b))
    /\ \A k \in DOMAIN Core(a) : SameLetter(Core(a)[k], Core(b)[k])

Bonus(difficulty) ==
    CASE difficulty = "easy" -> 50
      [] difficulty = "medium" -> 75
      [] difficulty = "hard" -> 120

KnownQuestionIds == {"vocab-1", "vocab-2", "vocab-3", "vocab-4"}

\* C23: a valid request for a known question whose answer matches the
\* canonical answer is answered 200 with correct = true and the bonus of
\* the question's difficulty (easy 50, medium 75, hard 120).
C23_CorrectAnswerBonus ==
    \A n \in DOMAIN scLog :
        LET p == scLog[n].payload
            r == scLog[n].resp
        IN  (/\ ValidScorePayload(p)
             /\ p.questionId[2] \in KnownQuestionIds
             /\ Matches(QUESTIONS[p.questionId[2]].answer, p.answer[2]))
            => /\ r.status = 200
               /\ r.correct
               /\ r.delta = Bonus(QUESTIONS[p.questionId[2]].difficulty)

\* A hard question answered in capitals and an easy one answered with
\* padding have both been scored.
C23_Witness ==
    /\ Len(scLog) = 2
    /\ scLog[1].payload.questionId[2] = "vocab-4"
    /\ scLog[1].payload.answer[2] = <<"A", "B", "E", "R", "R", "A", "T", "I", "O", "N">>
    /\ scLog[1].resp.delta = 120
    /\ scLog[2].payload.questionId[2] = "vocab-3"
    /\ Len(scLog[2].payload.answer[2]) > Len(Gregarious)
    /\ scLog[2].resp.delta = 50

\* C24 (as claimed): a valid request whose answer does not match the
\* canonical answer, or whose questionId is not a known question, is
\* answered 200 with correct = false and delta = -10; correct is true
\* exactly when delta is positive.
C24_WrongOrUnknownPenalty ==
    \A n \in DOMAIN scLog :
        LET p == scLog[n].payload
            r == scLog[n].resp
        IN  /\ (/\ ValidScorePayload(p)
                /\ \/ p.questionId[2] \notin KnownQuestionIds
                   \/ ~Matches(QUESTIONS[p.questionId[2]].answer, p.answer[2]))
               => (r.status = 200 /\ ~r.correct /\ r.delta = -10)
            /\ ValidScorePayload(p) => (r.correct <=> r.delta > 0)

\* C25 (as claimed): a payload in which quizId, userId, questionId or
\* answer is missing, empty or not a string is rejected with 400 and an
\* error body; a payload in which all four are non-empty strings is
\* accepted with 200.
C25_ValidationStatus ==
    \A n \in DOMAIN scLog :
        LET p == scLog[n].payload
            r == scLog[n].resp
        IN  /\ ~ValidScorePayload(p) => (r.status = 400 /\ r.error # "")
            /\ ValidScorePayload(p) => r.status = 200

\* C27: scoring is deterministic and stateless: two scored requests with
\* the same questionId and answer get the same response, whatever their
\* quizId and userId and whatever was served before; the same payload
\* always gets the same response.
C27_StatelessScoring ==
    \A n, m \in DOMAIN scLog :
        LET p == scLog[n].payload
            q == scLog[m].payload
        IN  /\ (/\ ValidScorePayload(p) /\ ValidScorePayload(q)
                /\ p.questionId = q.questionId /\ p.answer = q.answer)
               => scLog[n].resp = scLog[m].resp
            /\ p = q => scLog[n].resp = scLog[m].resp

\* The same wrong answer was submitted by two participants of two sessions
\* and penalised alike.
C27_Witness ==
    /\ Len(scLog) = 2
    /\ ValidScorePayload(scLog[1].payload) /\ ValidScorePayload(scLog[2].payload)
    /\ scLog[1].payload.questionId = scLog[2].payload.questionId
    /\ scLog[1].payload.answer = scLog[2].payload.answer
    /\ scLog[1].payload.quizId # scLog[2].payload.quizId
    /\ scLog[1].payload.userId # scLog[2].payload.userId
    /\ scLog[1].resp.status = 200 /\ scLog[1].resp.delta < 0
    /\ scLog[2].resp = scLog[1].resp

(***************************************************************************)
(* compareAnswers called directly on pairs of strings, as the unit tests   *)
(* do; scLog records the calls and their results.                          *)
(***************************************************************************)
Strings ==
    Answers
    \cup {<<>>,
          <<"a", "b", "e", "r", "r", " ", "a", "t", "i", "o", "n">>,
          <<"\n", "L", "u", "c", "k", "\r">>,
          <<"l", "u", "c", "k", "y">>}

CallCompareAnswers(expected_, actual) ==
    /\ Len(scLog) < MaxScoreReqs
    /\ scLog' = Append(scLog, [expected |-> expected_, actual |-> actual,
                               result |-> compareAnswers(expected_, actual)])
    /\ UNCHANGED <<zset, names, expireAt, now, req, issued, expected, joinSeq,
                   gwVars, touch, kv>>

NextCompare == \E a \in Strings, b \in Strings : CallCompareAnswers(a, b)

SpecCompare == Init /\ [][NextCompare]_vars

\* C26: compareAnswers(expected, actual) is true exactly when the two
\* strings are equal after removing surrounding whitespace and ignoring
\* letter case, and swapping the arguments gives the same result.
C26_CompareAnswers ==
    /\ \A n \in DOMAIN scLog :
          scLog[n].result <=> Matches(scLog[n].expected, scLog[n].actual)
    /\ \A n, m \in DOMAIN scLog :
          (scLog[n].expected = scLog[m].actual /\ scLog[n].actual = scLog[m].expected)
          => scLog[n].result = scLog[m].result

\* A padded, capitalised answer has been compared with the canonical one in
\* both orders, and matched.
C26_Witness ==
    /\ Len(scLog) = 2
    /\ scLog[1].expected = Gregarious
    /\ scLog[1].actual = <<" ", "G">> \o Tail(Gregarious) \o <<" ", "\t">>
    /\ scLog[2].expected = scLog[1].actual
    /\ scLog[2].actual = Gregarious
    /\ scLog[1].result /\ scLog[2].result

(***************************************************************************)
(* A running session: both participants and a bystander have entries and   *)
(* names.  Each participant posts one score update, under a new display    *)
(* name; the updates run concurrently with each other and with reads.      *)
(***************************************************************************)
Bystander == NumUsers + 1
JoinedScore(m) == IF m \in Users THEN 20 ELSE 70
JoinedName(m) == IF m = alice THEN "Ann" ELSE "Bea"
SentName(u) == IF u = alice THEN "Bea" ELSE "Ann"

InitJoined ==
    /\ zset = [q \in Sessions |->
                 {[member |-> m, score |-> JoinedScore(m)] : m \in Users \cup {Bystander}}]
    /\ names = [q \in Sessions |-> [m \in Users \cup {Bystander} |-> JoinedName(m)]]
    /\ expireAt = [q \in Sessions |-> [lb |-> TTL, names |-> TTL]]
    /\ now = 0
    /\ req = [i \in Slots |-> IdleReq]
    /\ issued = 0
    /\ expected = [q \in Sessions |-> [u \in AllUsers |-> 0]]
    /\ joinSeq = [q \in Sessions |-> [k \in 1..(NumUsers + 1) |-> k]]
    /\ sock = [c \in Clients |-> NoGateway]
    /\ rooms = [g \in Gateways |-> [q \in Sessions |-> {}]]
    /\ inbox = [c \in Clients |-> <<>>]
    /\ disp = [c \in Clients |->
                 [leaderboard |-> <<>>, userScore |-> 0, isJoined |-> FALSE]]
    /\ lastEmit = NoEmit
    /\ touch = [q \in Sessions |-> [u \in AllUsers |-> 0]]
    /\ kv = KvInit
    /\ scLog = ScInit

NextJoined ==
    \/ \E i \in Slots, q \in Sessions, u \in Users, d \in Deltas :
          touch[q][u] = 0 /\ PostScore(i, q, u, SentName(u), d)
    \/ \E i \in Slots, q \in Sessions : GetSession(i, q, NoUser)
    \/ ServiceStep
    \/ \E i \in Slots : HttpDone(i)

SpecJoined == InitJoined /\ [][NextJoined]_vars

\* The leaderboard of a session whose participants have the given scores
\* and names: higher score first, equal scores by userId descending, ranks
\* 1, 2, 3.
Ahead(score, a, b) == score[a] > score[b] \/ (score[a] = score[b] /\ a > b)

Board(score, name) ==
    [k \in 1..Cardinality(DOMAIN score) |->
        LET m == CHOOSE x \in DOMAIN score :
                     Cardinality({y \in DOMAIN score : Ahead(score, y, x)}) = k - 1
        IN  [userId |-> m, username |-> name[m], score |-> score[m], rank |-> k]]

BothApplied(q) ==
    /\ \A u \in Users : touch[q][u] = 1
    /\ \A i \in Slots, u \in Users : ~ScoreInFlight(i, q, u)

\* C28: for two participants that already have entries, once one score
\* update of each has been applied -- in either order, or with their store
\* commands interleaved -- every participant's score is its starting score
\* plus its own delta, the bystander's is unchanged, and the leaderboard
\* read from the store is the one these scores determine.
C28_UpdatesCommute ==
    \A q \in Sessions :
        BothApplied(q) =>
            LET score == [m \in Users \cup {Bystander} |->
                            JoinedScore(m) + IF m \in Users THEN expected[q][m] ELSE 0]
                name == [m \in Users \cup {Bystander} |->
                            IF m \in Users THEN SentName(m) ELSE JoinedName(m)]
            IN  /\ \A m \in Users \cup {Bystander} : ScoreOf(q, m) = score[m]
                /\ Members(zset[q]) = Users \cup {Bystander}
                /\ Entries(ZRevRange(zset[q], 0, TopStop), names[q], 0)
                     = Board(score, name)

\* Both updates were in flight together: each response already shows the
\* other participant's new score, and alice's +50 and bob's -10 are in.
C28_Witness ==
    /\ BothApplied("q1")
    /\ \E i, j \in Slots :
          /\ req[i].pc = "responded" /\ req[i].userId = alice /\ req[i].delta = 50
          /\ req[j].pc = "responded" /\ req[j].userId = bob /\ req[j].delta = -10
          /\ req[i].resp.leaderboard = req[j].resp.leaderboard
          /\ req[i].resp.leaderboard[1].userId = Bystander
          /\ req[i].resp.leaderboard[2].userId = alice
          /\ req[i].resp.leaderboard[2].username = SentName(alice)
          /\ req[i].resp.leaderboard[3].score = 10

(***************************************************************************)
(* The gateway's submit_answer between the scoring engine and the          *)
(* leaderboard service.                                                    *)
(***************************************************************************)
\* What the scoring engine owes a submission.
EngineDelta(questionId, answer) ==
    IF questionId \in KnownQuestionIds /\ Matches(QUESTIONS[questionId].answer, answer)
    THEN Bonus(QUESTIONS[questionId].difficulty)
    ELSE -10

C29_Step(i) ==
    LET r == req[i]
        owed == EngineDelta(r.questionId, r.answer)
        after == IF r.userId \in Members(zset'[r.quizId])
                 THEN ScoreIn(zset'[r.quizId], r.userId) ELSE 0
    IN
    (StepOf(i) /\ r.origin = "socket" /\ r.op = "score") =>
        \* nothing is written before the scoring call is answered; a failed
        \* scoring call ends the handler with the error acknowledgement
        /\ r.pc = "scoring" =>
              /\ UNCHANGED <<zset, names, expireAt>>
              /\ req'[i].pc \in {"zadd", "stalled", "idle"}
              /\ req'[i].pc = "zadd" => req'[i].delta = owed
              /\ req'[i].pc = "idle" => Sent(r.client) = {"error_ack"}
        \* the score of the submitter changes by the engine's delta only
        /\ after # ScoreOf(r.quizId, r.userId) =>
              /\ r.pc = "zincrby" /\ r.incr = <<>>
              /\ after = ScoreOf(r.quizId, r.userId) + owed
        \* a success acknowledgement carries the engine's delta, the update
        \* was applied, and applied once
        /\ "submit_ack" \in Sent(r.client) =>
              /\ r.delta = owed
              /\ r.incr # <<>>
              /\ inbox'[r.client][Len(inbox[r.client]) + 1].delta = owed
              /\ touch[r.quizId][r.userId] = 1 => ScoreOf(r.quizId, r.userId) = owed

\* C29: a successfully acknowledged submit_answer has made exactly one
\* score update, after the scoring response and with the delta the scoring
\* engine returned; when the scoring call fails no update is made and the
\* store is unchanged.
C29_OneUpdateWithEngineDelta == [][\A i \in Slots : C29_Step(i)]_vars

\* A wrong answer was acknowledged with the penalty, which is the
\* submitter's whole score.
C29_Witness ==
    \E c \in Clients, q \in Sessions, u \in Users :
        /\ touch[q][u] = 1
        /\ ScoreOf(q, u) = -10
        /\ \E k \in 1..Len(inbox[c]) :
              /\ inbox[c][k].type = "submit_ack" /\ ~inbox[c][k].correct
              /\ inbox[c][k].delta = -10 /\ inbox[c][k].newScore = -10

(***************************************************************************)
(* Socket events as the gateway receives them: any payload, with an        *)
(* acknowledgement callback (every emit of the frontend passes one).       *)
(***************************************************************************)
GwQuizIdFields == {<<"string", "q1">>, <<"string", "">>, <<"undefined", "">>}
GwUserIdFields == {<<"string", 1>>, <<"string", NoUser>>, <<"number", 1>>}
GwUsernameFields == {<<"string", "Ann">>, <<"string", "">>, <<"undefined", "">>}
GwQuestionIdFields == {<<"string", "vocab-3">>, <<"string", "">>, <<"number", "">>}
GwAnswerFields ==
    {<<"string", sub.answer>> : sub \in Submissions}
    \cup {<<"string", <<>>>>, <<"undefined", <<>>>>}

NoField == <<"undefined", "">>

NullEvent ==
    [t |-> "null", quizId |-> NoField, userId |-> <<"undefined", NoUser>>,
     username |-> NoField, questionId |-> NoField, answer |-> <<"undefined", <<>>>>]

JoinPayloads ==
    {[t |-> "object", quizId |-> a, userId |-> b, username |-> c,
      questionId |-> NoField, answer |-> <<"undefined", <<>>>>] :
        a \in GwQuizIdFields, b \in GwUserIdFields, c \in GwUsernameFields}
    \cup {NullEvent}

\* submit_answer payloads: all fields good, or exactly one of them missing,
\* empty or of another type.
Flaws(y) ==
    {k \in 1..5 :
        CASE k = 1 -> y[1] # <<"string", "q1">>
          [] k = 2 -> y[2] # <<"string", 1>>
          [] k = 3 -> y[3] # <<"string", "Ann">>
          [] k = 4 -> y[4] # <<"string", "vocab-3">>
          [] k = 5 -> y[5][1] # "string" \/ y[5][2] = <<>>}

SubmitPayloads ==
    {[t |-> "object", quizId |-> x[1], userId |-> x[2], username |-> x[3],
      questionId |-> x[4], answer |-> x[5]] :
        x \in {y \in GwQuizIdFields \X GwUserIdFields \X GwUsernameFields
                     \X GwQuestionIdFields \X GwAnswerFields :
                  Cardinality(Flaws(y)) <= 1}}
    \cup {NullEvent}

\* isJoinPayload without the check of username.
isJoinPayloadNameUnchecked(value) ==
    /\ value.t = "object"
    /\ value.quizId[1] = "string" /\ value.quizId[2] # ""
    /\ value.userId[1] = "string" /\ value.userId[2] # NoUser

isJoinPayload(value) ==
    /\ value.t = "object"
    /\ value.quizId[1] = "string" /\ value.quizId[2] # ""
    /\ value.userId[1] = "string" /\ value.userId[2] # NoUser
    /\ value.username[1] = "string" /\ value.username[2] # ""

isSubmitPayload(value) ==
    /\ value.t = "object"
    /\ value.quizId[1] = "string" /\ value.quizId[2] # ""
    /\ value.userId[1] = "string" /\ value.userId[2] # NoUser
    /\ value.username[1] = "string" /\ value.username[2] # ""
    /\ value.questionId[1] = "string" /\ value.questionId[2] # ""
    /\ value.answer[1] = "string" /\ Len(value.answer[2]) > 0

\* return sendAck(ack, { error: 'Invalid ... payload' })
RejectEvent(i, c, error) ==
    /\ FreeGwSlot(i)
    /\ sock[c] # NoGateway
    /\ issued' = issued + 1
    /\ inbox' = SendAck(inbox, c, ErrorAckOf(error))
    /\ UNCHANGED <<zset, names, expireAt, now, req, expected, joinSeq, sock, rooms,
                   disp, lastEmit, touch, kv, scLog>>

\* socket.on('join_quiz') with any payload.
JoinQuizEvent(i, c, payload) ==
    IF isJoinPayload(payload)
    THEN JoinQuiz(i, c, payload.quizId[2], payload.userId[2], payload.username[2])
    ELSE RejectEvent(i, c, "Invalid join payload")

\* socket.on('submit_answer') with any payload.
SubmitAnswerEvent(i, c, payload) ==
    IF isSubmitPayload(payload)
    THEN SubmitAnswer(i, c, payload.quizId[2], payload.userId[2], payload.username[2],
                      [questionId |-> payload.questionId[2],
                       answer |-> payload.answer[2]])
    ELSE RejectEvent(i, c, "Invalid answer payload")

NextGatewayInput ==
    \/ \E c \in Clients, g \in Gateways : Connect(c, g)
    \/ \E i \in Slots, c \in Clients, payload \in JoinPayloads :
          JoinQuizEvent(i, c, payload)
    \/ \E i \in Slots, c \in Clients, payload \in SubmitPayloads :
          SubmitAnswerEvent(i, c, payload)
    \/ \E i \in Slots : ScoringRespond(i)
    \/ ServiceStep
    \/ \E i \in Slots : GwJoinDone(i)
    \/ \E i \in Slots : GwSubmitDone(i)
    \/ \E c \in Clients : ClientRecv(c)

SpecGatewayInput == Init /\ [][NextGatewayInput]_vars

\* What the contract calls a missing, empty or non-string required field.
BadText(f) == f[1] # "string" \/ f[2] = ""
BadUserId(f) == f[1] # "string" \/ f[2] = NoUser
BadAnswer(f) == f[1] # "string" \/ f[2] = <<>>

InvalidJoinEvent(p) ==
    \/ p.t # "object"
    \/ BadText(p.quizId) \/ BadUserId(p.userId) \/ BadText(p.username)

InvalidSubmitEvent(p) ==
    \/ p.t # "object"
    \/ BadText(p.quizId) \/ BadUserId(p.userId) \/ BadText(p.username)
    \/ BadText(p.questionId) \/ BadAnswer(p.answer)

\* The step answers client c with an error acknowledgement and does nothing
\* else: no request to a service is started, no room, store or broadcast
\* changes, no other socket is written.
OnlyErrorAck(c) ==
    /\ Sent(c) = {"error_ack"}
    /\ Len(inbox'[c]) = Len(inbox[c]) + 1
    /\ \A d \in Clients \ {c} : inbox'[d] = inbox[d]
    /\ UNCHANGED <<req, rooms, sock, lastEmit, zset, names, expireAt, joinSeq,
                   expected, touch, disp>>

C30_Step ==
    issued' = issued + 1 =>
        \A i \in Slots, c \in Clients :
            /\ \A p \in JoinPayloads :
                  (InvalidJoinEvent(p) /\ JoinQuizEvent(i, c, p)) => OnlyErrorAck(c)
            /\ \A p \in SubmitPayloads :
                  (InvalidSubmitEvent(p) /\ SubmitAnswerEvent(i, c, p)) => OnlyErrorAck(c)

\* C30: a join_quiz or submit_answer event whose payload has a missing,
\* empty or non-string required field is answered with an error
\* acknowledgement and causes no call to the scoring engine or the
\* leaderboard service, no room membership change and no broadcast.
C30_InvalidEventRejected == [][C30_Step]_vars

\* Two events were received and rejected: a client holds two error
\* acknowledgements, no handler is running, the store and the rooms are
\* empty.
C30_Witness ==
    /\ issued = MaxEvents
    /\ \A i \in Slots : req[i].pc = "idle"
    /\ \A q \in Sessions : zset[q] = {} /\ \A g \in Gateways : rooms[g][q] = {}
    /\ \E c \in Clients :
          /\ Len(inbox[c]) = 2
          /\ \A k \in 1..2 : inbox[c][k].type = "error_ack"

(***************************************************************************)
(* Room membership of the gateway.                                         *)
(***************************************************************************)
\* The messages a step appended to the socket of client c.
NewMsgs(c) == SubSeq(inbox'[c], Len(inbox[c]) + 1, Len(inbox'[c]))

C31_Step(i) ==
    LET r == req[i] IN
    (StepOf(i) /\ r.origin = "socket" /\ r.op = "join") =>
        \* while the join call is pending the rooms do not change
        /\ req'[i].pc # "idle" => UNCHANGED <<rooms, lastEmit>>
        \* the handler ends after a failed join call
        /\ (req'[i].pc = "idle" /\ r.resp.status # 200) =>
              /\ UNCHANGED <<rooms, lastEmit>>
              /\ NewMsgs(r.client) = <<ErrorAckOf("Failed to join quiz")>>
              /\ \A c \in Clients \ {r.client} : inbox'[c] = inbox[c]
        \* the handler ends after an accepted join call
        /\ (req'[i].pc = "idle" /\ r.resp.status = 200) =>
              /\ rooms' = [rooms EXCEPT ![r.gw][r.quizId] = @ \cup {r.client}]
              /\ r.client \in lastEmit'.receivers
              /\ NewMsgs(r.client)[1] = UpdateMsg(r.resp)
              /\ r.userId \in Members(zset[r.quizId])

\* C31: a socket is added to the room of a quiz only when the leaderboard
\* service has accepted its join; a failed join call leaves the rooms as
\* they were, broadcasts nothing and is acknowledged with the error
\* 'Failed to join quiz'; an accepted one puts the joining socket among the
\* receivers of the leaderboard_update it causes.
C31_RoomOnlyAfterAcceptedJoin ==
    [][/\ \A i \in Slots : C31_Step(i)
       /\ rooms' # rooms =>
             \E i \in Slots : /\ StepOf(i) /\ req[i].op = "join"
                              /\ req[i].resp.status = 200]_vars

\* A client holds the error acknowledgement of a failed join and is in no
\* room, while another client joined the quiz and is in its room.
C31_Witness ==
    \E c, d \in Clients :
        /\ \E k \in 1..Len(inbox[c]) : inbox[c][k].error = "Failed to join quiz"
        /\ \A g \in Gateways, q \in Sessions : c \notin rooms[g][q]
        /\ \E g \in Gateways, q \in Sessions : d \in rooms[g][q]

(***************************************************************************)
(* Acknowledgements.                                                       *)
(***************************************************************************)
AckTypes == {"join_ack", "submit_ack", "error_ack"}

\* The acknowledgements a step wrote to the socket of client c.
AcksTo(c) == {k \in DOMAIN NewMsgs(c) : NewMsgs(c)[k].type \in AckTypes}

\* The handler of slot i ends in the step.
HandlerEnds(i) ==
    /\ StepOf(i) /\ req[i].origin = "socket"
    /\ req[i].pc # "idle" /\ req'[i].pc = "idle"

C32_AckStep ==
    \A c \in Clients :
        /\ Cardinality(AcksTo(c)) <= 1
        /\ AcksTo(c) # {} <=> \E i \in Slots : HandlerEnds(i) /\ req[i].client = c

\* A handler that has not acknowledged yet can still take a step.
C32_AckStillComes ==
    \A i \in Slots :
        (req[i].origin = "socket" /\ req[i].pc # "idle")
            => ENABLED (NextGatewayFaults /\ req'[i] # req[i])

\* C32 (as claimed): every join_quiz or submit_answer event receives
\* exactly one acknowledgement: a handler writes one acknowledgement when it
\* ends and none before, and no handler is left that can never end.
C32_ExactlyOneAck == []C32_AckStillComes /\ [][C32_AckStep]_vars

(***************************************************************************)
(* Clients that play as themselves: every client keeps the userId its App  *)
(* generated, and sends it with each join and each submission.             *)
(***************************************************************************)
ParticipantOf(c) == CHOOSE u \in Users : u = c

NextOwn ==
    \/ \E c \in Clients, g \in Gateways : Connect(c, g)
    \/ \E i \in Slots, c \in Clients, q \in Sessions, n \in ClientNames :
          JoinQuiz(i, c, q, ParticipantOf(c), n)
    \/ \E i \in Slots, c \in Clients, q \in Sessions, n \in ClientNames,
          sub \in Submissions : SubmitAnswer(i, c, q, ParticipantOf(c), n, sub)
    \/ \E i \in Slots : ScoringRespond(i)
    \/ ServiceStep
    \/ \E i \in Slots : GwJoinDone(i)
    \/ \E i \in Slots : GwSubmitDone(i)
    \/ \E c \in Clients : ClientRecv(c)

SpecOwn == Init /\ [][NextOwn]_vars

\* The scores participant u of session q has had so far: zero, the stored
\* score and, once a submission of u has been scored, the deltas the
\* engine gives and their sum.
OwnScores(q, u) ==
    {0, ScoreOf(q, u)}
    \cup IF expected[q][u] = 0 THEN {}
         ELSE {expected[q][u]} \cup {EngineDelta(sub.questionId, sub.answer) :
                                       sub \in Submissions}

\* C33 (as claimed): the score a client displays is always a score of the
\* client's own participant.
C33_OwnScoreDisplayed ==
    \A c \in Clients :
        \E q \in Sessions : disp[c].userScore \in OwnScores(q, ParticipantOf(c))

(***************************************************************************)
(* Two quizzes.  Every client has joined quiz A as its own participant on  *)
(* the first gateway process and has handled the updates and the           *)
(* acknowledgement of the joins.  Then the first client joins quiz B and   *)
(* plays there, while the others go on playing quiz A.                     *)
(***************************************************************************)
QuizA == "q1"
QuizB == "q2"
Quizzes == {QuizA, QuizB}

FirstClient == CHOOSE c \in Clients : \A d \in Clients : c <= d
FirstGateway == CHOOSE g \in Gateways : \A h \in Gateways : g <= h

JoinedA ==
    [z |-> {[member |-> ParticipantOf(c), score |-> 0] : c \in Clients},
     h |-> [m \in {ParticipantOf(c) : c \in Clients} |-> "Ann"]]

JoinedAResp ==
    BuildResponse(QuizA, ZRevRange(JoinedA.z, 0, TopStop), <<0>>, JoinedA.h)

InitTwoQuizzes ==
    /\ zset = [q \in Quizzes |-> IF q = QuizA THEN JoinedA.z ELSE {}]
    /\ names = [q \in Quizzes |-> IF q = QuizA THEN JoinedA.h ELSE EmptyHash]
    /\ expireAt = [q \in Quizzes |->
                     IF q = QuizA THEN [lb |-> TTL, names |-> TTL]
                     ELSE [lb |-> NoExpiry, names |-> NoExpiry]]
    /\ now = 0
    /\ req = [i \in Slots |-> IdleReq]
    /\ issued = 0
    /\ expected = [q \in Quizzes |-> [u \in AllUsers |-> 0]]
    /\ joinSeq = [q \in Quizzes |->
                    IF q = QuizA THEN [k \in 1..NumClients |-> ParticipantOf(k)]
                    ELSE <<>>]
    /\ sock = [c \in Clients |-> FirstGateway]
    /\ rooms = [g \in Gateways |-> [q \in Quizzes |->
                  IF g = FirstGateway /\ q = QuizA THEN Clients ELSE {}]]
    /\ inbox = [c \in Clients |-> <<>>]
    /\ disp = [c \in Clients |->
                 [leaderboard |-> JoinedAResp.leaderboard, userScore |-> 0,
                  isJoined |-> TRUE]]
    /\ lastEmit = [op |-> "join", quizId |-> QuizA, data |-> JoinedAResp,
                   receivers |-> Clients, viewers |-> Clients]
    /\ touch = [q \in Quizzes |-> [u \in AllUsers |->
                  IF q = QuizA /\ u \in Users THEN 1 ELSE 0]]
    /\ kv = KvInit
    /\ scLog = ScInit

\* The quiz a client plays: the one it joined last.
Playing(c) == IF c = FirstClient THEN QuizB ELSE QuizA

NextTwoQuizzes ==
    \/ \E i \in Slots, n \in ClientNames :
          /\ FirstClient \notin rooms[FirstGateway][QuizB]
          /\ JoinQuiz(i, FirstClient, QuizB, ParticipantOf(FirstClient), n)
    \/ \E i \in Slots, c \in Clients, n \in ClientNames, sub \in Submissions :
          /\ c \in rooms[FirstGateway][Playing(c)]
          /\ SubmitAnswer(i, c, Playing(c), ParticipantOf(c), n, sub)
    \/ \E i \in Slots : ScoringRespond(i)
    \/ ServiceStep
    \/ \E i \in Slots : GwJoinDone(i)
    \/ \E i \in Slots : GwSubmitDone(i)
    \/ \E c \in Clients : ClientRecv(c)

SpecTwoQuizzes == InitTwoQuizzes /\ [][NextTwoQuizzes]_vars

\* Client c has joined quiz B, its most recent join.
JoinedB(c) == sock[c] # NoGateway /\ c \in rooms[sock[c]][QuizB]

C34_Step ==
    \A c \in Clients :
        JoinedB(c) =>
            \* no update of another quiz is delivered to c
            /\ \A k \in DOMAIN NewMsgs(c) :
                  NewMsgs(c)[k].type = "leaderboard_update"
                      => NewMsgs(c)[k].data.quizId = QuizB
            \* and none replaces what c displays
            /\ (/\ inbox[c] # <<>> /\ inbox'[c] = Tail(inbox[c])
                /\ Head(inbox[c]).type = "leaderboard_update"
                /\ Head(inbox[c]).data.quizId # QuizB)
               => disp'[c] = disp[c]

\* C34 (as claimed): after a socket has joined quiz A and then quiz B,
\* updates of quiz A are no longer delivered to it and never replace the
\* leaderboard it shows for B.
C34_OnlyLatestQuiz == [][C34_Step]_vars

(***************************************************************************)
(* Leave Quiz.  The button is shown while isJoined; handleLeave resets the *)
(* App's state and sends nothing to the gateway.                           *)
(***************************************************************************)
handleLeave(c) ==
    /\ disp[c].isJoined
    /\ disp' = [disp EXCEPT ![c] =
                  [leaderboard |-> <<>>, userScore |-> 0, isJoined |-> FALSE]]
    /\ UNCHANGED <<zset, names, expireAt, now, req, issued, expected, joinSeq,
                   sock, rooms, inbox, lastEmit, touch, kv, scLog>>

NextLeave ==
    \/ NextOwn
    \/ \E c \in Clients : handleLeave(c)

SpecLeave == Init /\ [][NextLeave]_vars

\* Client c joined quiz q once, was acknowledged, and has pressed Leave
\* Quiz: its only event was handled to the end, its socket is in the room,
\* no acknowledgement is outstanding and it does not show itself as joined.
HasLeft(c, q) ==
    /\ ~disp[c].isJoined
    /\ sock[c] # NoGateway /\ c \in rooms[sock[c]][q]
    /\ touch[q][ParticipantOf(c)] = 1
    /\ \A k \in DOMAIN inbox[c] : inbox[c][k].type # "join_ack"

\* C35 (as claimed): after Leave Quiz the client's leaderboard stays empty
\* and its score stays 0 until it joins again, whatever the other
\* participants of the quiz do.
C35_LeftStaysEmpty ==
    \A c \in Clients, q \in Sessions :
        HasLeft(c, q) => (disp[c].leaderboard = <<>> /\ disp[c].userScore = 0)

(***************************************************************************)
(* Connection loss.  When a socket disconnects the server removes it from  *)
(* every room (the gateway's own disconnect handler does nothing); the     *)
(* client's 'disconnect' and 'connect' handlers only set the status text,  *)
(* and socket.io-client reconnects by itself with a new server-side socket *)
(* (Connect).  The connection is lost while no event of the client is      *)
(* being handled and nothing is on its way to it.                          *)
(***************************************************************************)
Disconnect(c) ==
    /\ sock[c] # NoGateway
    /\ inbox[c] = <<>>
    /\ \A i \in Slots : req[i].client # c
    /\ sock' = [sock EXCEPT ![c] = NoGateway]
    /\ rooms' = [rooms EXCEPT ![sock[c]] = [q \in DOMAIN @ |-> @[q] \ {c}]]
    /\ UNCHANGED <<zset, names, expireAt, now, req, issued, expected, joinSeq,
                   inbox, disp, lastEmit, touch, kv, scLog>>

NextReconnect ==
    \/ NextOwn
    \/ \E c \in Clients : Disconnect(c)

SpecReconnect == Init /\ [][NextReconnect]_vars

\* C36 (as claimed): whenever a client shows itself as joined, its current
\* socket connection is a member of the room of its quiz, also after the
\* socket has disconnected and reconnected.
C36_JoinedMeansInRoom ==
    \A c \in Clients :
        (disp[c].isJoined /\ sock[c] # NoGateway)
            => \E q \in Sessions : c \in rooms[sock[c]][q]

\* C37 (as claimed): the store keys of different sessions never coincide:
\* for the session ids A and B of any two requests, A different from B,
\* leaderboardKey(A) and usernamesKey(A) differ from leaderboardKey(B) and
\* usernamesKey(B), and leaderboardKey(A) differs from usernamesKey(A).
C37_KeysDistinct ==
    \A i, j \in Slots :
        LET A == req[i].qid
            B == req[j].qid
        IN  (req[i].pc \in KeyPcs /\ req[j].pc \in KeyPcs) =>
                /\ leaderboardKey(A) # usernamesKey(A)
                /\ A # B => {leaderboardKey(A), usernamesKey(A)}
                               \cap {leaderboardKey(B), usernamesKey(B)} = {}

=============================================================================
